---------------------------- MODULE Spec2Model ----------------------------
(***************************************************************************)
(* Candidate-job recommender: feature extraction, hard filter, layer       *)
(* scores and the two ranking operations.                                  *)
(*                                                                         *)
(* Representation choices                                                  *)
(*   - a Python str is a sequence of one-character strings, so lower(),    *)
(*     upper(), `in` and the regular expressions of normalize_text are     *)
(*     computed character by character;                                    *)
(*   - a Python float is an exact rational <<n, d>> in lowest terms with   *)
(*     d > 0 (rounding of binary floating point is not modelled);          *)
(*   - an Optional value is a sequence of length at most one: <<>> is      *)
(*     None, <<x>> is x;                                                   *)
(*   - a datetime is a day number, a timedelta's .days their difference;   *)
(*   - the sentence embedder is a deterministic one-dimensional embedder.  *)
(***************************************************************************)
EXTENDS Integers, Sequences, FiniteSets, TLC

(***************************************************************************)
(* Strings                                                                 *)
(***************************************************************************)
UpperLetters ==
    <<"A","B","C","D","E","F","G","H","I","J","K","L","M",
      "N","O","P","Q","R","S","T","U","V","W","X","Y","Z">>

LowerLetters ==
    <<"a","b","c","d","e","f","g","h","i","j","k","l","m",
      "n","o","p","q","r","s","t","u","v","w","x","y","z">>

Digits ==
    <<"0","1","2","3","4","5","6","7","8","9">>

\* str.lower() on the characters it changes
LowerTable ==
    [c \in {UpperLetters[i] : i \in DOMAIN UpperLetters} |->
        LowerLetters[CHOOSE i \in DOMAIN UpperLetters : UpperLetters[i] = c]]

\* str.upper() on the characters it changes
UpperTable ==
    [c \in {LowerLetters[i] : i \in DOMAIN LowerLetters} |->
        UpperLetters[CHOOSE i \in DOMAIN LowerLetters : LowerLetters[i] = c]]

\* str.lower()
Lower(s) ==
    [i \in DOMAIN s |-> IF s[i] \in DOMAIN LowerTable THEN LowerTable[s[i]] ELSE s[i]]

\* str.upper()
Upper(s) ==
    [i \in DOMAIN s |-> IF s[i] \in DOMAIN UpperTable THEN UpperTable[s[i]] ELSE s[i]]

\* Python's `sub in s`
Contains(s, sub) ==
    \E i \in 0..(Len(s) - Len(sub)) : SubSeq(s, i + 1, i + Len(sub)) = sub

\* \w of the regular expressions: letters, digits and the underscore
WordChars ==
    {UpperLetters[i] : i \in DOMAIN UpperLetters}
    \cup {LowerLetters[i] : i \in DOMAIN LowerLetters}
    \cup {Digits[i] : i \in DOMAIN Digits}
    \cup {"_"}

\* re.sub(r'[^\w\s]', '', text)
RECURSIVE StripPunctuation(_)
StripPunctuation(s) ==
    IF s = <<>> THEN <<>>
    ELSE IF Head(s) \in WordChars \/ Head(s) = " "
         THEN <<Head(s)>> \o StripPunctuation(Tail(s))
         ELSE StripPunctuation(Tail(s))

\* re.sub(r'\s+', ' ', text)
RECURSIVE CollapseSpaces(_)
CollapseSpaces(s) ==
    IF s = <<>> THEN <<>>
    ELSE IF Head(s) = " "
         THEN IF Tail(s) # <<>> /\ Head(Tail(s)) = " "
              THEN CollapseSpaces(Tail(s))
              ELSE <<" ">> \o CollapseSpaces(Tail(s))
         ELSE <<Head(s)>> \o CollapseSpaces(Tail(s))

RECURSIVE LStrip(_)
LStrip(s) ==
    IF s # <<>> /\ Head(s) = " " THEN LStrip(Tail(s)) ELSE s

RECURSIVE RStrip(_)
RStrip(s) ==
    IF s # <<>> /\ s[Len(s)] = " " THEN RStrip(SubSeq(s, 1, Len(s) - 1)) ELSE s

\* TextNormalizer.normalize_text
normalize_text(text) ==
    IF text = <<>> THEN <<>>
    ELSE RStrip(LStrip(CollapseSpaces(StripPunctuation(Lower(text)))))

\* str(n) for an integer n
RECURSIVE NatToStr(_)
NatToStr(n) ==
    IF n < 10 THEN <<Digits[n + 1]>>
    ELSE NatToStr(n \div 10) \o <<Digits[(n % 10) + 1]>>

IntToStr(n) ==
    IF n < 0 THEN <<"-">> \o NatToStr(0 - n) ELSE NatToStr(n)

\* " ".join(parts)
RECURSIVE JoinSpace(_)
JoinSpace(parts) ==
    IF parts = <<>> THEN <<>>
    ELSE IF Len(parts) = 1 THEN parts[1]
    ELSE parts[1] \o <<" ">> \o JoinSpace(Tail(parts))

\* dict.get(key, default) for a dict given as a sequence of <<key, value>>
DictGet(dict, key, default) ==
    IF \E i \in DOMAIN dict : dict[i][1] = key
    THEN dict[CHOOSE i \in DOMAIN dict : dict[i][1] = key][2]
    ELSE default

(***************************************************************************)
(* Rational arithmetic                                                     *)
(***************************************************************************)
Abs(x) ==
    IF x < 0 THEN 0 - x ELSE x

RECURSIVE GCD(_, _)
GCD(a, b) ==
    IF b = 0 THEN a ELSE GCD(b, a % b)

Rat(n, d) ==
    LET s == IF d < 0 THEN 0 - 1 ELSE 1
        g == GCD(Abs(n), Abs(d))
    IN  <<(s * n) \div g, (s * d) \div g>>

RInt(n) ==
    <<n, 1>>

RAdd(a, b) ==
    Rat(a[1] * b[2] + b[1] * a[2], a[2] * b[2])

RMul(a, b) ==
    Rat(a[1] * b[1], a[2] * b[2])

RDiv(a, b) ==
    Rat(a[1] * b[2], a[2] * b[1])

RLt(a, b) ==
    a[1] * b[2] < b[1] * a[2]

RLeq(a, b) ==
    a[1] * b[2] <= b[1] * a[2]

RMin(a, b) ==
    IF RLt(b, a) THEN b ELSE a

RMax(a, b) ==
    IF RLt(a, b) THEN b ELSE a

RZero ==
    <<0, 1>>

ROne ==
    <<1, 1>>

RECURSIVE RSum(_)
RSum(seq) ==
    IF seq = <<>> THEN RZero ELSE RAdd(Head(seq), RSum(Tail(seq)))

\* the set of the elements of a sequence
Range(seq) ==
    {seq[i] : i \in DOMAIN seq}

\* the indices of 1..n that are in keep, in increasing order
RECURSIVE SelectIdx(_, _)
SelectIdx(n, keep) ==
    IF n = 0 THEN <<>>
    ELSE IF n \in keep THEN Append(SelectIdx(n - 1, keep), n)
    ELSE SelectIdx(n - 1, keep)

(***************************************************************************)
(* String literals of the model's vocabulary                               *)
(***************************************************************************)
\* the strings of the inputs and of the program's literals, as sequences of
\* characters
Str ==
    [empty |->
        <<>>,
     English |->
        <<"E","n","g","l","i","s","h">>,
     english |->
        <<"e","n","g","l","i","s","h">>,
     French |->
        <<"F","r","e","n","c","h">>,
     A1 |->
        <<"A","1">>,
     A2 |->
        <<"A","2">>,
     B1 |->
        <<"B","1">>,
     B2 |->
        <<"B","2">>,
     C1 |->
        <<"C","1">>,
     C2 |->
        <<"C","2">>,
     Native |->
        <<"N","a","t","i","v","e">>,
     b2 |->
        <<"b","2">>,
     Fluent |->
        <<"F","l","u","e","n","t">>,
     Paris |->
        <<"P","a","r","i","s">>,
     paris |->
        <<"p","a","r","i","s">>,
     London |->
        <<"L","o","n","d","o","n">>,
     Atlantis |->
        <<"A","t","l","a","n","t","i","s">>,
     France |->
        <<"F","r","a","n","c","e">>,
     UK |->
        <<"U","K">>,
     online |->
        <<"o","n","l","i","n","e">>,
     Online |->
        <<"O","n","l","i","n","e">>,
     onsite |->
        <<"o","n","s","i","t","e">>,
     hybrid |->
        <<"h","y","b","r","i","d">>,
     Master |->
        <<"M","a","s","t","e","r">>,
     Bachelor |->
        <<"B","a","c","h","e","l","o","r">>,
     PhD |->
        <<"P","h","D">>,
     Bachelor_PhD_candidate |->
        <<"B","a","c","h","e","l","o","r"," ","(","P","h","D"," ","c","a","n","d","i","d","a","t","e",")">>,
     Computer_Science |->
        <<"C","o","m","p","u","t","e","r"," ","S","c","i","e","n","c","e">>,
     Physics |->
        <<"P","h","y","s","i","c","s">>,
     Machine_Learning |->
        <<"M","a","c","h","i","n","e"," ","L","e","a","r","n","i","n","g">>,
     Software_Engineer |->
        <<"S","o","f","t","w","a","r","e"," ","E","n","g","i","n","e","e","r">>,
     Data_Scientist |->
        <<"D","a","t","a"," ","S","c","i","e","n","t","i","s","t">>,
     builds_models |->
        <<"b","u","i","l","d","s"," ","m","o","d","e","l","s">>,
     R_and_D_lab |->
        <<"R","&","D"," ","l","a","b">>,
     Python |->
        <<"P","y","t","h","o","n">>,
     python_bang |->
        <<"p","y","t","h","o","n","!">>,
     Java |->
        <<"J","a","v","a">>,
     SQL |->
        <<"S","Q","L">>,
     Senior_5plus_years |->
        <<"S","e","n","i","o","r"," ","(","5","+"," ","y","e","a","r","s",")">>,
     Junior |->
        <<"J","u","n","i","o","r">>,
     Lead |->
        <<"L","e","a","d">>,
     LanguageProficiency_open |->
        <<"L","a","n","g","u","a","g","e","P","r","o","f","i","c","i","e","n","c","y","(","l","a","n","g","u","a","g","e","=","'">>,
     LanguageProficiency_mid |->
        <<"'",","," ","l","e","v","e","l","=","'">>,
     LanguageProficiency_close |->
        <<"'",")">>]

(***************************************************************************)
(* feature_extraction.py: taxonomy, embedder, dates, locations, languages  *)
(***************************************************************************)
\* TaxonomyMapper.title_taxonomy
title_taxonomy ==
    << <<Lower(Str.Software_Engineer), <<"S","E","0","0","1">> >>,
       <<Lower(Str.Data_Scientist), <<"D","S","0","0","1">> >>,
       << <<"d","a","t","a"," ","a","n","a","l","y","s","t">>, <<"D","A","0","0","1">> >>,
       << <<"m","a","c","h","i","n","e"," ","l","e","a","r","n","i","n","g"," ",
            "e","n","g","i","n","e","e","r">>, <<"M","L","E","0","0","1">> >>,
       << <<"p","r","o","d","u","c","t"," ","m","a","n","a","g","e","r">>,
          <<"P","M","0","0","1">> >>,
       << <<"p","r","o","j","e","c","t"," ","m","a","n","a","g","e","r">>,
          <<"P","J","M","0","0","1">> >> >>

\* TaxonomyMapper.skill_taxonomy
skill_taxonomy ==
    << <<Lower(Str.Python), <<"S","K","0","0","1">> >>,
       <<Lower(Str.Java), <<"S","K","0","0","2">> >>,
       << <<"j","a","v","a","s","c","r","i","p","t">>, <<"S","K","0","0","3">> >>,
       <<Lower(Str.SQL), <<"S","K","0","0","4">> >>,
       <<Lower(Str.Machine_Learning), <<"S","K","0","0","5">> >>,
       << <<"d","e","e","p"," ","l","e","a","r","n","i","n","g">>,
          <<"S","K","0","0","6">> >> >>

\* TaxonomyMapper.map_title
map_title(title) ==
    DictGet(title_taxonomy, normalize_text(title), normalize_text(title))

\* TaxonomyMapper.map_skill
map_skill(skill_name) ==
    DictGet(skill_taxonomy, normalize_text(skill_name), normalize_text(skill_name))

\* the position of a character in the embedder's vocabulary
CharCodes ==
    [c \in WordChars \ {"_"} |->
        IF \E i \in DOMAIN LowerLetters : LowerLetters[i] = c
        THEN CHOOSE i \in DOMAIN LowerLetters : LowerLetters[i] = c
        ELSE IF \E i \in DOMAIN UpperLetters : UpperLetters[i] = c
        THEN 26 + (CHOOSE i \in DOMAIN UpperLetters : UpperLetters[i] = c)
        ELSE 52 + (CHOOSE i \in DOMAIN Digits : Digits[i] = c)]

CharCode(c) ==
    IF c \in DOMAIN CharCodes THEN CharCodes[c] ELSE 63

RECURSIVE CodeSum(_)
CodeSum(text) ==
    IF text = <<>> THEN 0 ELSE CharCode(Head(text)) + CodeSum(Tail(text))

\* EmbeddingExtractor.encode_single: the external sentence embedder, a
\* deterministic function of the text into a one-dimensional unit vector
encode_single(text) ==
    IF CodeSum(text) % 2 = 0 THEN <<ROne>> ELSE <<Rat(0 - 1, 1)>>

\* EmbeddingExtractor.encode on a non-empty list of texts
encode(texts) ==
    [i \in DOMAIN texts |-> encode_single(texts[i])]

\* np.mean(vectors, axis=0)
MeanVector(vectors) ==
    <<RDiv(RSum([i \in DOMAIN vectors |-> vectors[i][1]]), RInt(Len(vectors)))>>

\* sklearn cosine_similarity of two vectors (a zero vector gives 0)
cosine_similarity(a, b) ==
    LET norm_a == Rat(Abs(a[1][1]), a[1][2])
        norm_b == Rat(Abs(b[1][1]), b[1][2])
    IN  IF norm_a = RZero \/ norm_b = RZero THEN RZero
        ELSE RDiv(RMul(a[1], b[1]), RMul(norm_a, norm_b))

\* DateProcessor.compute_duration_years, end_date already resolved
compute_duration_years(start_date, end_date) ==
    Rat(4 * (end_date - start_date), 1461)

\* LocationProcessor.CITY_COORDINATES, coordinates in units of 1e-4 degrees
CITY_COORDINATES ==
    << << <<"n","e","w"," ","y","o","r","k">>, <<407128, 0 - 740060>> >>,
       <<Lower(Str.London), <<515074, 0 - 1278>> >>,
       <<Lower(Str.Paris), <<488566, 23522>> >>,
       << <<"t","o","k","y","o">>, <<356762, 1396503>> >>,
       << <<"s","a","n"," ","f","r","a","n","c","i","s","c","o">>,
          <<377749, 0 - 1224194>> >> >>

\* LocationProcessor.get_coordinates
get_coordinates(city, country) ==
    DictGet(CITY_COORDINATES, Lower(city), <<0, 0>>)

\* geopy's geodesic(coords1, coords2).kilometers, an external library:
\* 0 for equal points, otherwise the rounded distances of the points used
GeodesicKm(coords1, coords2) ==
    IF coords1 = coords2 THEN RZero
    ELSE IF {coords1, coords2} = {<<515074, 0 - 1278>>, <<488566, 23522>>} THEN RInt(344)
    ELSE IF {coords1, coords2} = {<<515074, 0 - 1278>>, <<0, 0>>} THEN RInt(5710)
    ELSE IF {coords1, coords2} = {<<488566, 23522>>, <<0, 0>>} THEN RInt(5419)
    ELSE RInt(9999)

\* LocationProcessor.compute_geodesic_distance
compute_geodesic_distance(city1, country1, city2, country2) ==
    GeodesicKm(get_coordinates(city1, country1), get_coordinates(city2, country2))

\* LanguageProcessor.LEVEL_ORDINAL
LEVEL_ORDINAL ==
    << <<Str.A1, 1>>, <<Str.A2, 2>>, <<Str.B1, 3>>, <<Str.B2, 4>>,
       <<Str.C1, 5>>, <<Str.C2, 6>>, <<Str.Native, 7>> >>

\* LanguageProcessor.level_to_ordinal
level_to_ordinal(level) ==
    DictGet(LEVEL_ORDINAL, Upper(level), 0)

\* LanguageProcessor.get_candidate_language_level
get_candidate_language_level(candidate, language) ==
    LET hits == {i \in DOMAIN candidate.languages :
                    Lower(candidate.languages[i].language) = Lower(language)}
    IN  IF hits = {} THEN 0
        ELSE level_to_ordinal(candidate.languages[CHOOSE i \in hits : \A k \in hits : i <= k].level)

(***************************************************************************)
(* feature_extraction.py: FeatureExtractor                                 *)
(***************************************************************************)
\* Python truthiness of an Optional[str]: None and '' are falsy
Truthy(opt) ==
    opt # <<>> /\ opt[1] # <<>>

\* `opt or ''` for an Optional[str]
OrEmpty(opt) ==
    IF Truthy(opt) THEN opt[1] ELSE <<>>

SetMax(S) ==
    CHOOSE x \in S : \A y \in S : y <= x

SetMin(S) ==
    CHOOSE x \in S : \A y \in S : x <= y

\* 1.0 if cond else 0.0
Flag(cond) ==
    IF cond THEN ROne ELSE RZero

\* the dict degree_levels of extract_education_features, in insertion order
degree_levels ==
    << << <<"h","i","g","h"," ","s","c","h","o","o","l">>, 1 >>,
       << <<"b","a","c","h","e","l","o","r">>, 2 >>,
       << <<"m","a","s","t","e","r">>, 3 >>,
       << <<"p","h","d">>, 4 >> >>

\* FeatureExtractor.extract_education_features
extract_education_features(candidate, job) ==
    LET candidate_highest ==
            SetMax({0} \cup
                   {degree_levels[k][2] :
                      k \in {k \in DOMAIN degree_levels :
                               \E e \in DOMAIN candidate.education :
                                  Contains(Lower(candidate.education[e].level_of_education),
                                           degree_levels[k][1])}})
        candidate_fields ==
            {normalize_text(candidate.education[e].department) :
                e \in DOMAIN candidate.education}
        matching ==
            IF Truthy(job.education_level)
            THEN {k \in DOMAIN degree_levels :
                     Contains(Lower(job.education_level[1]), degree_levels[k][1])}
            ELSE {}
        required_level ==
            IF matching = {} THEN 0 ELSE degree_levels[SetMin(matching)][2]
        required_fields ==
            (IF Truthy(job.education_department)
             THEN {normalize_text(job.education_department[1])} ELSE {})
            \cup
            (IF Truthy(job.education_speciality)
             THEN {normalize_text(job.education_speciality[1])} ELSE {})
        intersection == candidate_fields \cap required_fields
        union == candidate_fields \cup required_fields
    IN  [candidate_highest_degree_level |-> RInt(candidate_highest),
         required_min_degree_level |-> RInt(required_level),
         degree_level_gap |-> RInt(candidate_highest - required_level),
         has_required_degree_level |-> Flag(candidate_highest >= required_level),
         field_match_score |->
            IF candidate_fields # {} \/ required_fields # {}
            THEN (IF union # {}
                  THEN Rat(Cardinality(intersection), Cardinality(union))
                  ELSE RZero)
            ELSE RZero]

\* FeatureExtractor._parse_experience_level
parse_experience_level(level_str) ==
    IF level_str = <<>> THEN RZero
    ELSE IF Contains(Lower(level_str), <<"e","n","t","r","y">>)
            \/ Contains(Lower(level_str), <<"j","u","n","i","o","r">>) THEN RZero
    ELSE IF Contains(Lower(level_str), <<"m","i","d">>)
            \/ Contains(Lower(level_str), <<"2","-","5">>) THEN RInt(3)
    ELSE IF Contains(Lower(level_str), <<"s","e","n","i","o","r">>)
            \/ Contains(Lower(level_str), <<"5","+">>) THEN RInt(5)
    ELSE RInt(2)

\* `exp.end_date if exp.end_date else datetime.now()`
EndOrNow(exp, now) ==
    IF exp.end_date # <<>> THEN exp.end_date[1] ELSE now

\* f"{exp.position} {exp.description}"
ExperienceText(exp) ==
    exp.position \o <<" ">> \o exp.description

RECURSIVE RMaxOf(_)
RMaxOf(seq) ==
    IF Len(seq) = 1 THEN seq[1] ELSE RMax(seq[1], RMaxOf(Tail(seq)))

\* FeatureExtractor.extract_experience_features; now is datetime.now()
extract_experience_features(candidate, job, now) ==
    LET work == candidate.work_experience
        years(i) == compute_duration_years(work[i].start_date[1], EndOrNow(work[i], now))
        total_years == RSum([i \in DOMAIN work |-> years(i)])
        job_text == job.title \o <<" ">> \o job.description
        exp_texts == [i \in DOMAIN work |-> ExperienceText(work[i])]
        similarities ==
            [i \in DOMAIN work |->
                cosine_similarity(encode_single(job_text), encode(exp_texts)[i])]
        required_titles == {map_title(job.title)}
        in_required == {i \in DOMAIN work : map_title(work[i].position) \in required_titles}
        years_in_required ==
            RSum([k \in DOMAIN SelectIdx(Len(work), in_required) |->
                     years(SelectIdx(Len(work), in_required)[k])])
        required_years == parse_experience_level(job.level_of_experience)
        latest == SetMax({work[i].start_date[1] : i \in DOMAIN work})
        most_recent == work[SetMin({i \in DOMAIN work : work[i].start_date[1] = latest})]
    IN  [total_years_experience |-> total_years,
         title_similarity_score |->
            IF work # <<>> THEN RMaxOf(similarities) ELSE RZero,
         years_experience_in_required_titles |-> years_in_required,
         experience_approval |-> Flag(RLeq(required_years, total_years)),
         recent_role_match |->
            IF work # <<>>
            THEN Flag(map_title(most_recent.position) \in required_titles)
            ELSE RZero]

\* str(LanguageProficiency(language=..., level=...)), the dataclass repr
LanguageProficiencyRepr(lp) ==
    Str.LanguageProficiency_open \o lp.language \o Str.LanguageProficiency_mid
        \o lp.level \o Str.LanguageProficiency_close

\* lang_name of a dict entry of job.languages.  The value under 'languages'
\* is a dict (kind "dict"), a LanguageProficiency object (kind "obj") or
\* missing (kind "absent")
RequirementLanguageName(lang_req) ==
    IF lang_req.kind = "dict" THEN lang_req.language
    ELSE IF lang_req.kind = "obj" THEN LanguageProficiencyRepr(lang_req)
    ELSE <<>>

\* the entries of job.languages that are dicts with Level_of_cretical > 0
MandatoryRequirements(job) ==
    SelectIdx(Len(job.languages),
              {i \in DOMAIN job.languages :
                  job.languages[i].is_dict /\ job.languages[i].Level_of_cretical > 0})

\* the entries of job.languages that are dicts with Level_of_cretical <= 0
PreferredRequirements(job) ==
    SelectIdx(Len(job.languages),
              {i \in DOMAIN job.languages :
                  job.languages[i].is_dict /\ ~(job.languages[i].Level_of_cretical > 0)})

\* FeatureExtractor.extract_language_features
extract_language_features(candidate, job) ==
    LET mandatory_languages == MandatoryRequirements(job)
        preferred_languages == PreferredRequirements(job)
        candidate_level(i) ==
            get_candidate_language_level(candidate,
                                         RequirementLanguageName(job.languages[i]))
        required_ordinal(i) ==
            level_to_ordinal(IntToStr(job.languages[i].Level_of_cretical))
        mandatory_satisfied ==
            Cardinality({k \in DOMAIN mandatory_languages :
                           candidate_level(mandatory_languages[k])
                              >= required_ordinal(mandatory_languages[k])})
        language_gaps ==
            [k \in DOMAIN mandatory_languages |->
                RInt(candidate_level(mandatory_languages[k])
                        - required_ordinal(mandatory_languages[k]))]
        num_mandatory ==
            IF mandatory_languages # <<>> THEN Len(mandatory_languages) ELSE 1
        preferred_satisfied ==
            Cardinality({k \in DOMAIN preferred_languages :
                           candidate_level(preferred_languages[k]) > 0})
        num_preferred ==
            IF preferred_languages # <<>> THEN Len(preferred_languages) ELSE 1
    IN  [mandatory_language_coverage_ratio |->
            IF num_mandatory > 0 THEN Rat(mandatory_satisfied, num_mandatory) ELSE ROne,
         all_mandatory_languages_ok |-> Flag(mandatory_satisfied = num_mandatory),
         preferred_language_coverage_ratio |->
            IF num_preferred > 0 THEN Rat(preferred_satisfied, num_preferred) ELSE RZero,
         avg_language_gap |->
            IF language_gaps # <<>>
            THEN RDiv(RSum(language_gaps), RInt(Len(language_gaps)))
            ELSE RZero]

\* `skill.importance or 1.0`: None and 0.0 are falsy
ImportanceOrOne(skill) ==
    IF skill.importance # <<>> /\ skill.importance[1][1] # 0
    THEN skill.importance[1] ELSE ROne

\* FeatureExtractor.extract_skills_features
extract_skills_features(candidate, job) ==
    LET candidate_skill_ids ==
            {map_skill(candidate.skills[i].skill_name) : i \in DOMAIN candidate.skills}
        job_skill_ids ==
            {map_skill(job.skills[i].skill_name) : i \in DOMAIN job.skills}
        overlap == candidate_skill_ids \cap job_skill_ids
        total_importance ==
            RSum([i \in DOMAIN job.skills |-> ImportanceOrOne(job.skills[i])])
        matched_importance ==
            RSum([i \in DOMAIN job.skills |->
                    IF map_skill(job.skills[i].skill_name) \in candidate_skill_ids
                    THEN ImportanceOrOne(job.skills[i]) ELSE RZero])
        skill_overlap_ratio ==
            IF job_skill_ids # {}
            THEN Rat(Cardinality(overlap), Cardinality(job_skill_ids)) ELSE RZero
        candidate_emb ==
            MeanVector(encode([i \in DOMAIN candidate.skills |-> candidate.skills[i].skill_name]))
        job_emb ==
            MeanVector(encode([i \in DOMAIN job.skills |-> job.skills[i].skill_name]))
    IN  [num_required_skills |-> RInt(Cardinality(job_skill_ids)),
         skill_overlap_count |-> RInt(Cardinality(overlap)),
         skill_overlap_ratio |-> skill_overlap_ratio,
         weighted_skill_match_score |->
            IF RLt(RZero, total_importance)
            THEN RDiv(matched_importance, total_importance) ELSE RZero,
         mandatory_skill_coverage_ratio |-> skill_overlap_ratio,
         skill_embedding_similarity |->
            IF candidate.skills # <<>> /\ job.skills # <<>>
            THEN cosine_similarity(candidate_emb, job_emb)
            ELSE RZero]

\* extract_location_features comparing presence_type with 'online' as written
\* (without lower-casing it)
extract_location_features_case_sensitive(candidate, job) ==
    IF job.presence_type = Str.online
    THEN [location_relevant |-> RZero,
          geodesic_distance |-> RZero,
          location_match |-> ROne]
    ELSE LET same_city == Lower(candidate.city) = Lower(job.city)
             same_country == Lower(candidate.country) = Lower(job.country)
         IN  [location_relevant |-> ROne,
              geodesic_distance |->
                 compute_geodesic_distance(candidate.city, candidate.country,
                                           job.city, job.country),
              location_match |->
                 IF same_city /\ same_country THEN ROne
                 ELSE IF candidate.ready_to_relocate THEN ROne
                 ELSE RZero]

\* extract_location_features matching on the city alone
extract_location_features_city_only(candidate, job) ==
    IF Lower(job.presence_type) = Str.online
    THEN [location_relevant |-> RZero,
          geodesic_distance |-> RZero,
          location_match |-> ROne]
    ELSE LET same_city == Lower(candidate.city) = Lower(job.city)
         IN  [location_relevant |-> ROne,
              geodesic_distance |->
                 compute_geodesic_distance(candidate.city, candidate.country,
                                           job.city, job.country),
              location_match |->
                 IF same_city THEN ROne
                 ELSE IF candidate.ready_to_relocate THEN ROne
                 ELSE RZero]

\* FeatureExtractor.extract_location_features
extract_location_features(candidate, job) ==
    IF Lower(job.presence_type) = Str.online
    THEN [location_relevant |-> RZero,
          geodesic_distance |-> RZero,
          location_match |-> ROne]
    ELSE LET same_city == Lower(candidate.city) = Lower(job.city)
             same_country == Lower(candidate.country) = Lower(job.country)
         IN  [location_relevant |-> ROne,
              geodesic_distance |->
                 compute_geodesic_distance(candidate.city, candidate.country,
                                           job.city, job.country),
              location_match |->
                 IF same_city /\ same_country THEN ROne
                 ELSE IF candidate.ready_to_relocate THEN ROne
                 ELSE RZero]

\* extract_mandatory_criteria_features whose loop passes no criterion
extract_mandatory_criteria_features_none_passed(candidate, job) ==
    LET total_criteria ==
            IF job.critical_requirements # <<>> THEN Len(job.critical_requirements) ELSE 0
        passed_count == 0
    IN  [num_mandatory_criteria_passed |-> RInt(passed_count),
         mandatory_criteria_all_pass |-> Flag(passed_count = total_criteria)]

\* FeatureExtractor.extract_mandatory_criteria_features
extract_mandatory_criteria_features(candidate, job) ==
    LET total_criteria ==
            IF job.critical_requirements # <<>> THEN Len(job.critical_requirements) ELSE 0
        passed_count == Cardinality(DOMAIN job.critical_requirements)
    IN  [num_mandatory_criteria_passed |-> RInt(passed_count),
         mandatory_criteria_all_pass |-> Flag(passed_count = total_criteria)]

\* the candidate's aggregated text: " ".join of the experience texts
CandidateText(candidate) ==
    JoinSpace([i \in DOMAIN candidate.work_experience |->
                  ExperienceText(candidate.work_experience[i])])

\* f"{job.title} {job.description} {job.qualifications or ''} {job.responsibilities or ''}"
JobText(job) ==
    job.title \o <<" ">> \o job.description \o <<" ">> \o OrEmpty(job.qualifications)
        \o <<" ">> \o OrEmpty(job.responsibilities)

\* FeatureExtractor.extract_global_text_similarity
extract_global_text_similarity(candidate, job) ==
    [global_text_similarity |->
        IF CandidateText(candidate) # <<>> /\ JobText(job) # <<>>
        THEN cosine_similarity(encode_single(CandidateText(candidate)),
                               encode_single(JobText(job)))
        ELSE RZero]

\* a work experience record without a start date: `end_date - start_date`
\* raises TypeError inside compute_duration_years
MissingDate(candidate) ==
    \E i \in DOMAIN candidate.work_experience :
        candidate.work_experience[i].start_date = <<>>

\* FeatureExtractor.extract_all_features (for a candidate without a missing
\* date); later updates of the dict win, as in dict.update
extract_all_features(candidate, job, now) ==
    extract_global_text_similarity(candidate, job)
    @@ extract_mandatory_criteria_features(candidate, job)
    @@ extract_location_features(candidate, job)
    @@ extract_skills_features(candidate, job)
    @@ extract_language_features(candidate, job)
    @@ extract_experience_features(candidate, job, now)
    @@ extract_education_features(candidate, job)

(***************************************************************************)
(* scoring.py: ScoringEngine and HardFilter                                *)
(***************************************************************************)
research_keywords ==
    << <<"r","e","s","e","a","r","c","h">>,
       <<"s","c","i","e","n","t","i","s","t">>,
       <<"r","&","d">>,
       <<"p","h","d">>,
       <<"p","o","s","t","d","o","c">> >>

\* _get_weight_config looking for the research keywords in the title only
get_weight_config_title_only(job) ==
    LET text == Lower(job.title)
        is_research == \E k \in DOMAIN research_keywords : Contains(text, research_keywords[k])
    IN  IF is_research
        THEN [w_edu |-> Rat(35, 100), w_exp |-> Rat(25, 100),
              w_lang |-> Rat(15, 100), w_skill |-> Rat(25, 100)]
        ELSE [w_edu |-> Rat(15, 100), w_exp |-> Rat(45, 100),
              w_lang |-> Rat(15, 100), w_skill |-> Rat(25, 100)]

\* ScoringEngine._get_weight_config
get_weight_config(job) ==
    LET text == Lower(job.title) \o <<" ">> \o Lower(job.description)
        is_research == \E k \in DOMAIN research_keywords : Contains(text, research_keywords[k])
    IN  IF is_research
        THEN [w_edu |-> Rat(35, 100), w_exp |-> Rat(25, 100),
              w_lang |-> Rat(15, 100), w_skill |-> Rat(25, 100)]
        ELSE [w_edu |-> Rat(15, 100), w_exp |-> Rat(45, 100),
              w_lang |-> Rat(15, 100), w_skill |-> Rat(25, 100)]

\* compute_education_score granting the first bonus from 0.5 on (>= for >)
compute_education_score_bonus_at_half(features) ==
    IF features.has_required_degree_level = RZero THEN RZero
    ELSE LET base1 == IF RLeq(Rat(5, 10), features.field_match_score)
                      THEN RAdd(Rat(7, 10), Rat(2, 10)) ELSE Rat(7, 10)
             base2 == IF RLt(Rat(8, 10), features.field_match_score)
                      THEN RAdd(base1, Rat(1, 10)) ELSE base1
         IN  RMin(base2, ROne)

\* compute_education_score with the base 0.3
compute_education_score_low_base(features) ==
    IF features.has_required_degree_level = RZero THEN RZero
    ELSE LET base1 == IF RLt(Rat(5, 10), features.field_match_score)
                      THEN RAdd(Rat(3, 10), Rat(2, 10)) ELSE Rat(3, 10)
             base2 == IF RLt(Rat(8, 10), features.field_match_score)
                      THEN RAdd(base1, Rat(1, 10)) ELSE base1
         IN  RMin(base2, ROne)

\* ScoringEngine.compute_education_score
compute_education_score(features) ==
    IF features.has_required_degree_level = RZero THEN RZero
    ELSE LET base1 == IF RLt(Rat(5, 10), features.field_match_score)
                      THEN RAdd(Rat(7, 10), Rat(2, 10)) ELSE Rat(7, 10)
             base2 == IF RLt(Rat(8, 10), features.field_match_score)
                      THEN RAdd(base1, Rat(1, 10)) ELSE base1
         IN  RMin(base2, ROne)

\* compute_experience_score without the final clamp to [0, 1]
compute_experience_score_unclamped(features, job) ==
    LET required_years == parse_experience_level(job.level_of_experience)
        exp_total_score ==
            IF RLt(RZero, required_years)
            THEN RMin(RDiv(features.total_years_experience, RMax(required_years, ROne)), ROne)
            ELSE ROne
        exp_role_score ==
            IF RLt(RZero, required_years)
            THEN RMin(RDiv(features.years_experience_in_required_titles,
                           RMax(required_years, ROne)), ROne)
            ELSE ROne
        title_similarity_normalized ==
            RDiv(RAdd(features.title_similarity_score, ROne), RInt(2))
    IN  RAdd(RAdd(RMul(Rat(4, 10), exp_total_score),
                  RMul(Rat(3, 10), exp_role_score)),
             RMul(Rat(3, 10), title_similarity_normalized))

\* ScoringEngine.compute_experience_score
compute_experience_score(features, job) ==
    LET required_years == parse_experience_level(job.level_of_experience)
        exp_total_score ==
            IF RLt(RZero, required_years)
            THEN RMin(RDiv(features.total_years_experience, RMax(required_years, ROne)), ROne)
            ELSE ROne
        exp_role_score ==
            IF RLt(RZero, required_years)
            THEN RMin(RDiv(features.years_experience_in_required_titles,
                           RMax(required_years, ROne)), ROne)
            ELSE ROne
        title_similarity_normalized ==
            RDiv(RAdd(features.title_similarity_score, ROne), RInt(2))
        S_exp == RAdd(RAdd(RMul(Rat(4, 10), exp_total_score),
                           RMul(Rat(3, 10), exp_role_score)),
                      RMul(Rat(3, 10), title_similarity_normalized))
    IN  RMin(RMax(S_exp, RZero), ROne)

\* ScoringEngine.compute_language_score
compute_language_score(features) ==
    IF features.all_mandatory_languages_ok = RZero THEN RZero
    ELSE RMin(RMax(RAdd(RMul(Rat(7, 10), features.mandatory_language_coverage_ratio),
                        RMul(Rat(3, 10), features.preferred_language_coverage_ratio)),
                   RZero), ROne)

\* ScoringEngine.compute_skills_score
compute_skills_score(features) ==
    IF RLt(features.mandatory_skill_coverage_ratio, Rat(5, 10)) THEN RZero
    ELSE RMin(RMax(RAdd(RMul(Rat(6, 10), features.skill_overlap_ratio),
                        RMul(Rat(4, 10), features.weighted_skill_match_score)),
                   RZero), ROne)

\* ScoringEngine.compute_aggregated_score once the features are extracted:
\* the layer_scores dict (S_base is also the first component of the returned
\* pair)
aggregate_layer_scores(features, job) ==
    LET S_edu == compute_education_score(features)
        S_exp == compute_experience_score(features, job)
        S_lang == compute_language_score(features)
        S_skill == compute_skills_score(features)
        weights == get_weight_config(job)
    IN  [S_edu |-> S_edu,
         S_exp |-> S_exp,
         S_lang |-> S_lang,
         S_skill |-> S_skill,
         S_base |-> RAdd(RAdd(RAdd(RMul(weights.w_edu, S_edu),
                                   RMul(weights.w_exp, S_exp)),
                              RMul(weights.w_lang, S_lang)),
                         RMul(weights.w_skill, S_skill)),
         weights |-> weights]

\* ScoringEngine.compute_aggregated_score
compute_aggregated_score(candidate, job, now) ==
    aggregate_layer_scores(extract_all_features(candidate, job, now), job)

\* features.get(key, 0.0) on a feature mapping that may lack the key
FeatureGet(features, key) ==
    IF key \in DOMAIN features THEN features[key] ELSE RZero

\* filter_decision with the language check ahead of the criteria check
filter_decision_languages_first(features, job) ==
    IF FeatureGet(features, "all_mandatory_languages_ok") = RZero
    THEN [should_filter |-> TRUE, reason |-> "Mandatory languages not satisfied"]
    ELSE IF FeatureGet(features, "mandatory_criteria_all_pass") = RZero
    THEN [should_filter |-> TRUE, reason |-> "Failed mandatory criteria"]
    ELSE IF Lower(job.presence_type) # Str.online
            /\ FeatureGet(features, "location_match") = RZero
    THEN [should_filter |-> TRUE,
          reason |-> "Location mismatch and candidate not willing to relocate"]
    ELSE [should_filter |-> FALSE, reason |-> "Passed all hard filters"]

\* the decision of HardFilter.should_filter_out on the feature mapping that
\* its feature extractor returned for the pair
filter_decision(features, job) ==
    IF FeatureGet(features, "mandatory_criteria_all_pass") = RZero
    THEN [should_filter |-> TRUE, reason |-> "Failed mandatory criteria"]
    ELSE IF FeatureGet(features, "all_mandatory_languages_ok") = RZero
    THEN [should_filter |-> TRUE, reason |-> "Mandatory languages not satisfied"]
    ELSE IF Lower(job.presence_type) # Str.online
            /\ FeatureGet(features, "location_match") = RZero
    THEN [should_filter |-> TRUE,
          reason |-> "Location mismatch and candidate not willing to relocate"]
    ELSE [should_filter |-> FALSE, reason |-> "Passed all hard filters"]

\* HardFilter.should_filter_out with the repository's FeatureExtractor
should_filter_out(candidate, job, now) ==
    filter_decision(extract_all_features(candidate, job, now), job)

(***************************************************************************)
(* explainability.py: ExplainabilityEngine                                 *)
(***************************************************************************)
\* ExplainabilityEngine._explain_education
_explain_education(features, layer_scores) ==
    LET score == layer_scores.S_edu
    IN  [score |-> score,
         candidate_highest_degree |-> FeatureGet(features, "candidate_highest_degree_level"),
         required_degree |-> FeatureGet(features, "required_min_degree_level"),
         meets_requirement |-> FeatureGet(features, "has_required_degree_level") = ROne,
         field_match |-> FeatureGet(features, "field_match_score"),
         reason |->
            IF score = RZero
            THEN "Candidate does not meet minimum education requirement"
            ELSE IF RLt(score, Rat(1, 2))
            THEN "Education level meets requirement but field mismatch"
            ELSE "Strong education match"]

\* ExplainabilityEngine._identify_strengths
_identify_strengths(features, layer_scores) ==
    (IF RLt(Rat(8, 10), layer_scores.S_edu)
     THEN <<"Excellent education match">> ELSE <<>>)
    \o (IF RLt(Rat(8, 10), layer_scores.S_exp)
        THEN <<"Strong relevant experience">> ELSE <<>>)
    \o (IF RLt(Rat(7, 10), layer_scores.S_skill)
        THEN <<"High skills overlap">> ELSE <<>>)
    \o (IF RLt(Rat(7, 10), FeatureGet(features, "title_similarity_score"))
        THEN <<"Very similar role experience">> ELSE <<>>)
    \o (IF FeatureGet(features, "recent_role_match") = ROne
        THEN <<"Current role aligns with job">> ELSE <<>>)

\* ExplainabilityEngine._identify_weaknesses
_identify_weaknesses(job, features, layer_scores) ==
    (IF RLt(layer_scores.S_edu, Rat(1, 2))
     THEN <<"Education level or field mismatch">> ELSE <<>>)
    \o (IF RLt(layer_scores.S_exp, Rat(1, 2))
        THEN <<"Limited relevant experience">> ELSE <<>>)
    \o (IF RLt(layer_scores.S_lang, Rat(1, 2))
        THEN <<"Language requirements not fully met">> ELSE <<>>)
    \o (IF RLt(layer_scores.S_skill, Rat(1, 2))
        THEN <<"Skills gap">> ELSE <<>>)
    \o (IF FeatureGet(features, "location_match") = RZero
           /\ Lower(job.presence_type) # Str.online
        THEN <<"Location constraint">> ELSE <<>>)

\* ExplainabilityEngine.generate_explanation, on the features and the layer
\* scores its two engines returned for the pair, with the breakdown entries
\* of _explain_experience, _explain_languages, _explain_skills,
\* _explain_location and _explain_mandatory_criteria.  The reason of the last
\* two of the score entries is the f-string's template with the counts it
\* formats.
generate_explanation(candidate, job, features, layer_scores) ==
    LET feature(key) == FeatureGet(features, key)
        \* int(x) of a float x >= 0
        int(x) == x[1] \div x[2]
        experience ==
            [score |-> layer_scores.S_exp,
             total_years |-> feature("total_years_experience"),
             years_in_required_titles |-> feature("years_experience_in_required_titles"),
             title_similarity |-> feature("title_similarity_score"),
             recent_role_match |-> feature("recent_role_match") = ROne,
             reason |->
                IF RLt(layer_scores.S_exp, Rat(3, 10)) THEN "Limited relevant experience"
                ELSE IF RLt(layer_scores.S_exp, Rat(7, 10)) THEN "Moderate experience match"
                ELSE "Strong experience alignment"]
        languages ==
            [score |-> layer_scores.S_lang,
             all_mandatory_ok |-> feature("all_mandatory_languages_ok") = ROne,
             mandatory_coverage |-> feature("mandatory_language_coverage_ratio"),
             preferred_coverage |-> feature("preferred_language_coverage_ratio"),
             reason |->
                IF layer_scores.S_lang = RZero THEN "Mandatory languages not satisfied"
                ELSE IF RLt(layer_scores.S_lang, Rat(1, 2))
                THEN "Some language requirements not fully met"
                ELSE "Language requirements satisfied"]
        overlap_count == int(feature("skill_overlap_count"))
        total_required == int(feature("num_required_skills"))
        skills ==
            [score |-> layer_scores.S_skill,
             matched_skills_count |-> overlap_count,
             total_required_skills |-> total_required,
             overlap_ratio |-> feature("skill_overlap_ratio"),
             weighted_match |-> feature("weighted_skill_match_score"),
             reason |->
                IF layer_scores.S_skill = RZero THEN <<"Critical skills missing">>
                ELSE IF RLt(layer_scores.S_skill, Rat(1, 2))
                THEN <<"Only ", IntToStr(overlap_count), "/", IntToStr(total_required),
                       " required skills matched">>
                ELSE <<"Strong skills match: ", IntToStr(overlap_count), "/",
                       IntToStr(total_required), " skills">>]
        is_online == Lower(job.presence_type) = Str.online
        location_match == feature("location_match") = ROne
        distance == feature("geodesic_distance")
        location ==
            [job_type |-> job.presence_type,
             is_online |-> is_online,
             location_match |-> location_match,
             distance_km |-> IF ~is_online THEN distance ELSE RZero,
             candidate_relocates |-> candidate.ready_to_relocate,
             reason |->
                IF is_online THEN "Online position - location not relevant"
                ELSE IF location_match
                THEN IF RLt(distance, RInt(50)) THEN "Same city/region"
                     ELSE "Candidate willing to relocate"
                ELSE "Location mismatch and candidate not willing to relocate"]
        all_pass == feature("mandatory_criteria_all_pass") = ROne
        passed_count == int(feature("num_mandatory_criteria_passed"))
        total_count ==
            IF job.critical_requirements # <<>> THEN Len(job.critical_requirements) ELSE 0
        mandatory_criteria ==
            [all_passed |-> all_pass,
             passed_count |-> passed_count,
             total_count |-> total_count,
             reason |->
                IF all_pass THEN <<"All mandatory criteria satisfied">>
                ELSE <<"Only ", IntToStr(passed_count), "/", IntToStr(total_count),
                       " mandatory criteria passed">>]
    IN  [overall_score |-> layer_scores.S_base,
         breakdown |->
            [education |-> _explain_education(features, layer_scores),
             experience |-> experience,
             languages |-> languages,
             skills |-> skills,
             location |-> location,
             mandatory_criteria |-> mandatory_criteria],
         strengths |-> _identify_strengths(features, layer_scores),
         weaknesses |-> _identify_weaknesses(job, features, layer_scores)]

(***************************************************************************)
(* Inputs: candidates and jobs (models.py)                                 *)
(***************************************************************************)
\* the largest number of fields in which a pair differs from the base pair
MaxVaried ==
    2

\* datetime.now(), a day number
Today ==
    3000

LanguageProficiency(language, level) ==
    [language |-> language, level |-> level]

Skill(skill_name, importance) ==
    [skill_name |-> skill_name, importance |-> importance]

Education(level_of_education, department, speciality) ==
    [level_of_education |-> level_of_education,
     department |-> department,
     speciality |-> speciality]

WorkExperience(position, description, start_date, end_date) ==
    [position |-> position, description |-> description,
     start_date |-> start_date, end_date |-> end_date]

\* an entry of job.languages: a dict {"languages": ..., "Level_of_cretical": n}
\* (is_dict) or a bare LanguageProficiency object
LanguageRequirement(is_dict, kind, language, level, critical) ==
    [is_dict |-> is_dict, kind |-> kind, language |-> language, level |-> level,
     Level_of_cretical |-> critical]

\* the values a field of Candidate takes; the first one is the base value
CandidateOptions(field) ==
    CASE field = "languages" ->
            << <<LanguageProficiency(Str.English, Str.B2)>>,
               <<>>,
               <<LanguageProficiency(Str.english, Str.Native),
                 LanguageProficiency(Str.French, Str.A1)>>,
               <<LanguageProficiency(Str.English, Str.C2)>> >>
      [] field = "skills" ->
            << <<Skill(Str.Python, <<>>)>>,
               <<>>,
               <<Skill(Str.python_bang, <<ROne>>), Skill(Str.Java, <<Rat(1, 2)>>)>>,
               <<Skill(Str.SQL, <<ROne>>)>> >>
      [] field = "education" ->
            << <<Education(Str.Master, Str.Computer_Science, Str.Machine_Learning)>>,
               <<>>,
               <<Education(Str.Bachelor, Str.Physics, Str.empty),
                 Education(Str.PhD, Str.Machine_Learning, Str.Physics)>>,
               <<Education(Str.Bachelor, Str.Physics, Str.empty),
                 Education(Str.Master, Str.Computer_Science, Str.Machine_Learning),
                 Education(Str.Master, Str.Machine_Learning, Str.Physics)>>,
               <<Education(Str.Bachelor_PhD_candidate, Str.Computer_Science,
                           Str.Machine_Learning)>> >>
      [] field = "work_experience" ->
            << <<WorkExperience(Str.Software_Engineer, Str.builds_models, <<0>>, <<1461>>)>>,
               <<>>,
               <<WorkExperience(Str.Data_Scientist, Str.empty, <<2000>>, <<>>)>>,
               <<WorkExperience(Str.Software_Engineer, Str.builds_models, <<0>>, <<2922>>),
                 WorkExperience(Str.Data_Scientist, Str.R_and_D_lab, <<2922>>, <<>>)>>,
               <<WorkExperience(Str.Software_Engineer, Str.empty, <<1461>>, <<0>>)>>,
               <<WorkExperience(Str.Software_Engineer, Str.builds_models, <<>>, <<1461>>)>> >>
      [] field = "city" -> <<Str.paris, Str.London>>
      [] field = "country" -> <<Str.France, Str.UK>>
      [] field = "ready_to_relocate" -> <<FALSE, TRUE>>

CandidateFields ==
    {"languages", "skills", "education", "work_experience", "city", "country",
     "ready_to_relocate"}

\* the values a field of JobPosition takes; the first one is the base value
JobOptions(field) ==
    CASE field = "title" -> <<Str.Software_Engineer, Str.Data_Scientist>>
      [] field = "description" -> <<Str.builds_models, Str.R_and_D_lab>>
      [] field = "city" -> <<Str.Paris, Str.Atlantis>>
      [] field = "country" -> <<Str.France, Str.UK>>
      [] field = "presence_type" -> <<Str.onsite, Str.Online, Str.online, Str.hybrid>>
      [] field = "level_of_experience" ->
            <<Str.Senior_5plus_years, Str.Junior, Str.empty, Str.Lead>>
      [] field = "education_level" -> << <<Str.Master>>, <<>>, <<Str.PhD>>, <<Str.Lead>> >>
      [] field = "education_department" -> << <<Str.Computer_Science>>, <<>>, <<Str.Physics>> >>
      [] field = "education_speciality" -> << <<Str.Machine_Learning>>, <<>> >>
      [] field = "qualifications" -> << <<>>, <<Str.Python>> >>
      [] field = "responsibilities" -> << <<>> >>
      [] field = "skills" ->
            << <<Skill(Str.Python, <<ROne>>), Skill(Str.SQL, <<Rat(1, 2)>>)>>,
               <<>>,
               <<Skill(Str.Java, <<RZero>>), Skill(Str.Python, <<>>)>>,
               <<Skill(Str.Python, <<Rat(1, 4)>>), Skill(Str.Java, <<ROne>>),
                 Skill(Str.SQL, <<ROne>>)>> >>
      [] field = "critical_requirements" -> << <<>>, <<"CR001">>, <<"CR001", "CR002">> >>
      [] field = "languages" ->
            << <<LanguageRequirement(TRUE, "dict", Str.English, Str.C1, 5)>>,
               <<>>,
               <<LanguageRequirement(TRUE, "obj", Str.English, Str.C1, 5)>>,
               <<LanguageRequirement(TRUE, "dict", Str.French, Str.A1, 0)>>,
               <<LanguageRequirement(TRUE, "dict", Str.english, Str.B1, 3),
                 LanguageRequirement(TRUE, "dict", Str.French, Str.A1, 0)>>,
               <<LanguageRequirement(FALSE, "obj", Str.English, Str.C1, 5),
                 LanguageRequirement(TRUE, "dict", Str.French, Str.C1, 5)>> >>

JobFields ==
    {"title", "description", "city", "country", "presence_type", "level_of_experience",
     "education_level", "education_department", "education_speciality",
     "qualifications", "responsibilities", "skills", "critical_requirements",
     "languages"}

SeqsUpTo(S, n) ==
    UNION {[1..k -> S] : k \in 0..n}

\* a choice names, for every field of the candidate and of the job, the
\* position of its value among the field's options
BaseChoice ==
    [candidate |-> [f \in CandidateFields |-> 1], job |-> [f \in JobFields |-> 1]]

\* the choice that differs from choice in the value of one field: variation
\* names the side, the field and the position of the value
VaryOne(choice, variation) ==
    [choice EXCEPT ![variation[1]][variation[2]] = variation[3]]

RECURSIVE ChoicesWithin(_)
ChoicesWithin(n) ==
    IF n = 0 THEN {BaseChoice}
    ELSE LET variations ==
                 UNION {{<<"candidate", f, k>> : k \in 1..Len(CandidateOptions(f))} :
                           f \in CandidateFields}
                 \cup UNION {{<<"job", f, k>> : k \in 1..Len(JobOptions(f))} :
                                f \in JobFields}
         IN  {VaryOne(c, v) : c \in ChoicesWithin(n - 1), v \in variations}

\* the choices of the candidate-job pairs the pure operations are applied to
InputChoices ==
    ChoicesWithin(MaxVaried)

CandidateOf(choice) ==
    [f \in CandidateFields |-> CandidateOptions(f)[choice.candidate[f]]]

JobOf(choice) ==
    [f \in JobFields |-> JobOptions(f)[choice.job[f]]]

BaseCandidate ==
    CandidateOf(BaseChoice)

BaseJob ==
    JobOf(BaseChoice)

(***************************************************************************)
(* State                                                                   *)
(***************************************************************************)
VARIABLES
    candidate,      \* the candidate of the pair under evaluation
    job,            \* the job of the pair under evaluation
    now,            \* datetime.now()
    result,         \* the operation applied to the pair and what it returned
    ranking,        \* the last ranking call: its arguments and what it returned
    scorer,         \* the answers the learned Scorer has given so far
    observed,       \* the scores the ranking calls have attached to pool members
    members_used,   \* the number of pool members handed to ranking calls so far
    system          \* the RecommenderSystem: the candidates its feature
                    \* extractor raises on, its hard filter and its model's
                    \* prepare_features, as functions of the named objects

vars ==
    <<candidate, job, now, result, ranking, scorer, observed, members_used, system>>

\* the state of the ranking operations
rankVars ==
    <<ranking, scorer, observed, members_used, system>>

NoRanking ==
    [op |-> "none"]

NoResult ==
    [op |-> "none"]

\* no RecommenderSystem has been constructed
NoSystem ==
    [constructed |-> FALSE]

(***************************************************************************)
(* The pure operations, each applied once to a pair of inputs              *)
(***************************************************************************)
\* the labels level_to_ordinal is applied to
LevelLabels ==
    {Str.A1, Str.A2, Str.B1, Str.B2, Str.C1, Str.C2, Str.Native, Str.b2, Str.Fluent, Str.empty,
     IntToStr(5), Upper(Str.Native)}

\* the keys should_filter_out reads
FilterKeys ==
    {"mandatory_criteria_all_pass", "all_mandatory_languages_ok", "location_match"}

\* the feature mappings a feature extractor handed to HardFilter may return:
\* every subset of the keys read, each with value 0.0 or 1.0
InjectedFeatures ==
    UNION {[keys -> {RZero, ROne}] : keys \in SUBSET FilterKeys}

FeatInit ==
    /\ \E choice \in InputChoices :
          /\ candidate = CandidateOf(choice)
          /\ job = JobOf(choice)
    /\ now = Today
    /\ result = NoResult
    /\ ranking = NoRanking
    /\ scorer = <<>>
    /\ observed = {}
    /\ members_used = 0
    /\ system = NoSystem

\* FeatureExtractor.extract_all_features(candidate, job)
ExtractAllFeatures ==
    /\ result.op = "none"
    /\ result' = IF MissingDate(candidate)
                 THEN [op |-> "extract_all_features", raised |-> TRUE]
                 ELSE [op |-> "extract_all_features", raised |-> FALSE,
                       features |-> extract_all_features(candidate, job, now)]
    /\ UNCHANGED <<candidate, job, now, rankVars>>

\* ScoringEngine.compute_aggregated_score(candidate, job): the features it
\* extracts and the layer scores it returns
ComputeAggregatedScore ==
    /\ result.op = "none"
    /\ result' = IF MissingDate(candidate)
                 THEN [op |-> "compute_aggregated_score", raised |-> TRUE]
                 ELSE LET features == extract_all_features(candidate, job, now)
                      IN  [op |-> "compute_aggregated_score", raised |-> FALSE,
                           features |-> features,
                           layer_scores |-> aggregate_layer_scores(features, job)]
    /\ UNCHANGED <<candidate, job, now, rankVars>>

\* HardFilter.should_filter_out(candidate, job), the filter built over the
\* repository's FeatureExtractor
ShouldFilterOut ==
    /\ result.op = "none"
    /\ result' = IF MissingDate(candidate)
                 THEN [op |-> "should_filter_out", raised |-> TRUE]
                 ELSE LET features == extract_all_features(candidate, job, now)
                      IN  [op |-> "should_filter_out", raised |-> FALSE,
                           extractor |-> "FeatureExtractor",
                           features |-> features,
                           decision |-> filter_decision(features, job)]
    /\ UNCHANGED <<candidate, job, now, rankVars>>

\* HardFilter.should_filter_out(candidate, job), the filter built over a
\* feature extractor that returns the mapping features for the pair; the
\* candidate is not read, so the call is made with the base candidate
ShouldFilterOutWith(features) ==
    /\ result.op = "none"
    /\ candidate = BaseCandidate
    /\ result' = [op |-> "should_filter_out", raised |-> FALSE,
                  extractor |-> "injected",
                  features |-> features,
                  decision |-> filter_decision(features, job)]
    /\ UNCHANGED <<candidate, job, now, rankVars>>

\* LanguageProcessor.level_to_ordinal(level); neither the candidate nor the
\* job is read, so the call is made beside the base pair
LevelToOrdinal(level) ==
    /\ result.op = "none"
    /\ candidate = BaseCandidate
    /\ job = BaseJob
    /\ result' = [op |-> "level_to_ordinal", level |-> level,
                  ordinal |-> level_to_ordinal(level)]
    /\ UNCHANGED <<candidate, job, now, rankVars>>

\* ExplainabilityEngine.generate_explanation(candidate, job)
GenerateExplanation ==
    /\ result.op = "none"
    /\ result' = IF MissingDate(candidate)
                 THEN [op |-> "generate_explanation", raised |-> TRUE]
                 ELSE LET features == extract_all_features(candidate, job, now)
                          layer_scores == aggregate_layer_scores(features, job)
                      IN  [op |-> "generate_explanation", raised |-> FALSE,
                           features |-> features,
                           layer_scores |-> layer_scores,
                           explanation |->
                              generate_explanation(candidate, job, features,
                                                   layer_scores)]
    /\ UNCHANGED <<candidate, job, now, rankVars>>

FeatNext ==
    \/ ExtractAllFeatures
    \/ ComputeAggregatedScore
    \/ ShouldFilterOut
    \/ GenerateExplanation
    \/ \E features \in InjectedFeatures : ShouldFilterOutWith(features)
    \/ \E level \in LevelLabels : LevelToOrdinal(level)

FeatSpec ==
    FeatInit /\ [][FeatNext]_vars

(***************************************************************************)
(* two_tower_model.py: ModelWrapper.prepare_features                       *)
(***************************************************************************)
\* ModelWrapper.__init__: feature_dim
feature_dim ==
    150

\* ModelWrapper.__init__: embedding_dim
embedding_dim ==
    384

\* sorted(features_dict.keys())
feature_keys ==
    <<"all_mandatory_languages_ok", "avg_language_gap", "candidate_highest_degree_level",
      "degree_level_gap", "experience_approval", "field_match_score", "geodesic_distance",
      "global_text_similarity", "has_required_degree_level", "location_match",
      "location_relevant", "mandatory_criteria_all_pass",
      "mandatory_language_coverage_ratio", "mandatory_skill_coverage_ratio",
      "num_mandatory_criteria_passed", "num_required_skills",
      "preferred_language_coverage_ratio", "recent_role_match",
      "required_min_degree_level", "skill_embedding_similarity", "skill_overlap_count",
      "skill_overlap_ratio", "title_similarity_score", "total_years_experience",
      "weighted_skill_match_score", "years_experience_in_required_titles">>

\* np.pad(v, (0, dim - len(v))) if len(v) < dim else v[:dim], with the
\* padding put in front and the truncation keeping the last dim entries
PadOrTruncate_at_the_left(v, dim) ==
    IF Len(v) < dim
    THEN [i \in 1..dim |-> IF i <= dim - Len(v) THEN RZero ELSE v[i - (dim - Len(v))]]
    ELSE SubSeq(v, Len(v) - dim + 1, Len(v))

\* np.pad(v, (0, dim - len(v))) if len(v) < dim else v[:dim]
PadOrTruncate(v, dim) ==
    IF Len(v) < dim
    THEN [i \in 1..dim |-> IF i <= Len(v) THEN v[i] ELSE RZero]
    ELSE SubSeq(v, 1, dim)

\* sorted(features_dict.keys()), for a mapping keyed by feature names
SortedKeys(features_dict) ==
    SelectIdx(Len(feature_keys),
              {i \in DOMAIN feature_keys : feature_keys[i] \in DOMAIN features_dict})

\* ModelWrapper.prepare_features once the feature extractor has returned the
\* mapping features_dict and its embedder the vector embedding, for a wrapper
\* built with the widths self.feature_dim and self.embedding_dim
prepare_arrays(features_dict, embedding, self) ==
    LET keys == SortedKeys(features_dict)
        feature_vector == [i \in DOMAIN keys |-> features_dict[feature_keys[keys[i]]]]
    IN  <<PadOrTruncate(feature_vector, self.feature_dim),
          PadOrTruncate(embedding, self.embedding_dim)>>

\* ModelWrapper.__init__ with the default widths
DefaultWrapper ==
    [constructed |-> TRUE, feature_dim |-> feature_dim, embedding_dim |-> embedding_dim]

\* the text the wrapper hands to the embedder
CombinedText(cand, jb) ==
    CandidateText(cand) \o <<" ">> \o JobText(jb)

\* ModelWrapper.prepare_features: the pair (feature_vector, embedding)
prepare_features(cand, jb, time) ==
    prepare_arrays(extract_all_features(cand, jb, time),
                   encode_single(CombinedText(cand, jb)), DefaultWrapper)

(***************************************************************************)
(* The entities of the ranking calls                                       *)
(***************************************************************************)
\* the largest pool of a ranking call
MaxPool ==
    3

\* the largest number of pool members of the ranking calls of one behaviour
\* when several calls follow each other
MaxMembers ==
    3

CandidateNames ==
    {"A", "B", "C", "D"}

JobNames ==
    {"J1", "J2", "J3"}

\* the candidate objects: A lives where the jobs are, B lives elsewhere and
\* relocates, C lives elsewhere and does not relocate, D has an experience
\* record without a start date
CandidateNamed(name) ==
    CASE name = "A" -> BaseCandidate
      [] name = "B" -> [BaseCandidate EXCEPT
                           !.city = Str.London, !.country = Str.UK,
                           !.ready_to_relocate = TRUE,
                           !.work_experience = CandidateOptions("work_experience")[3]]
      [] name = "C" -> [BaseCandidate EXCEPT
                           !.city = Str.London, !.country = Str.UK,
                           !.skills = CandidateOptions("skills")[3]]
      [] name = "D" -> [BaseCandidate EXCEPT
                           !.work_experience = CandidateOptions("work_experience")[6]]

\* the job objects: J1 is on site, J2 is online, J3 asks for no language
JobNamed(name) ==
    CASE name = "J1" -> BaseJob
      [] name = "J2" -> [BaseJob EXCEPT !.presence_type = Str.Online,
                                        !.title = Str.Data_Scientist]
      [] name = "J3" -> [BaseJob EXCEPT !.languages = <<>>]

\* the outputs of the learned Scorer, in tenths
ScoreValues ==
    {2, 5, 9}

\* the candidate objects whose features can be extracted
SoundCandidates ==
    {n \in CandidateNames : ~MissingDate(CandidateNamed(n))}

\* Tabulate(f) is the function f with its values computed once
Tabulate(f) ==
    f @@ <<>>

\* hard_filter.should_filter_out(candidate, job) for the named objects
FilterTable ==
    Tabulate([p \in SoundCandidates \X JobNames |->
                 should_filter_out(CandidateNamed(p[1]), JobNamed(p[2]), Today).should_filter])

\* model.prepare_features(candidate, job) for the named objects
ReprTable ==
    Tabulate([p \in SoundCandidates \X JobNames |->
                 prepare_features(CandidateNamed(p[1]), JobNamed(p[2]), Today)])

\* a name for the representation of a pair: two pairs have the same name
\* exactly when prepare_features returns equal arrays for them
ReprId ==
    LET table == ReprTable
    IN  Tabulate([p \in DOMAIN table |->
                     CHOOSE q \in DOMAIN table : table[q] = table[p]])

\* RecommenderSystem.__init__: the system over the repository's hard filter
\* and model wrapper; training is the mode flag of model.model, which a
\* torch.nn.Module has set after construction
RecommenderSystem ==
    [constructed |-> TRUE,
     training |-> TRUE,
     raises |-> CandidateNames \ SoundCandidates,
     should_filter_out |-> FilterTable,
     prepare_features |-> ReprId]

(***************************************************************************)
(* inference.py: RecommenderSystem                                         *)
(***************************************************************************)
\* the members of seq that are in keep, in the order of seq
RECURSIVE FilterSeq(_, _)
FilterSeq(seq, keep) ==
    IF seq = <<>> THEN <<>>
    ELSE IF Head(seq) \in keep THEN <<Head(seq)>> \o FilterSeq(Tail(seq), keep)
    ELSE FilterSeq(Tail(seq), keep)

\* the hard filter loop that drops nothing
hard_filter_loop_keeps_all(pool, filtered_out) ==
    pool

\* the hard filter loop that keeps the first pool member when
\* should_filter_out filters every member out
hard_filter_loop_never_empty(pool, filtered_out) ==
    IF pool # <<>> /\ Range(pool) \subseteq filtered_out
    THEN <<pool[1]>>
    ELSE FilterSeq(pool, Range(pool) \ filtered_out)

\* the hard filter loop: the pool members that should_filter_out does not
\* filter out, in pool order
hard_filter_loop(pool, filtered_out) ==
    FilterSeq(pool, Range(pool) \ filtered_out)

\* InsertDescending that puts entry ahead of the entries of equal score
InsertDescending_unstable(sorted, entry) ==
    LET before == Cardinality({i \in DOMAIN sorted : sorted[i].score > entry.score})
    IN  SubSeq(sorted, 1, before) \o <<entry>> \o SubSeq(sorted, before + 1, Len(sorted))

\* the place of entry in a list sorted by descending score: behind every
\* entry whose score is at least its own
InsertDescending(sorted, entry) ==
    LET before == Cardinality({i \in DOMAIN sorted : sorted[i].score >= entry.score})
    IN  SubSeq(sorted, 1, before) \o <<entry>> \o SubSeq(sorted, before + 1, Len(sorted))

\* results.sort(key=lambda x: x[1], reverse=True): a stable sort
RECURSIVE SortByScoreDescending(_)
SortByScoreDescending(results) ==
    IF results = <<>> THEN <<>>
    ELSE InsertDescending(SortByScoreDescending(SubSeq(results, 1, Len(results) - 1)),
                          results[Len(results)])

\* results[:top_k]
SliceTo(results, top_k) ==
    IF top_k >= 0
    THEN SubSeq(results, 1, IF top_k < Len(results) THEN top_k ELSE Len(results))
    ELSE SubSeq(results, 1, IF Len(results) + top_k > 0 THEN Len(results) + top_k ELSE 0)

\* the entities of a result list, in order
Entities(results) ==
    [i \in DOMAIN results |-> results[i].entity]

\* list_objects with the sort applied to the filtered list and the results
\* rebuilt in its order
list_objects_sorting_the_filtered_list(pool, apply_hard_filter, filtered, results) ==
    LET filtered_list == IF apply_hard_filter THEN "filtered" ELSE "pool"
        sorted == SortByScoreDescending(results)
        created == IF apply_hard_filter
                   THEN [pool |-> pool, filtered |-> filtered, results |-> sorted]
                   ELSE [pool |-> pool, results |-> sorted]
    IN  [created EXCEPT ![filtered_list] = Entities(sorted)]

\* the list objects of a ranking call when it returns: the caller's pool,
\* the filtered list, which is a list of its own when the hard filter is
\* applied and the caller's pool itself when it is not, and the list
\* results, which results.sort reorders in place
list_objects(pool, apply_hard_filter, filtered, results) ==
    LET created == IF apply_hard_filter
                   THEN [pool |-> pool, filtered |-> filtered, results |-> results]
                   ELSE [pool |-> pool, results |-> results]
    IN  [created EXCEPT !["results"] = SortByScoreDescending(@)]

\* the state after a ranking call.  keys[i] is the pair of representations
\* the two towers receive for filtered[i]; answers holds the Scorer's
\* outputs for the pairs it has not been asked before.  An exception leaves
\* the call without a result.
\* model.model.eval() is reached when the filter step ends with a survivor:
\* a malformed record raises in the filter step when the filter is applied
\* and in the encoding step when it is not, and an external failure beside
\* a survivor happens in either step.
RankingCall(op, fixed, pool, top_k, apply_hard_filter, filtered, keys, fail_at, answers) ==
    LET failing == {i \in DOMAIN pool :
                       \/ i = fail_at
                       \/ IF op = "recommend_candidates_for_job"
                          THEN pool[i] \in system.raises
                          ELSE fixed \in system.raises}
        raised == failing # {}
        first_failing == SetMin(failing)
        memo == answers @@ scorer
        results == [i \in DOMAIN filtered |->
                       [entity |-> filtered[i], score |-> memo[keys[i]]]]
        lists == list_objects(pool, apply_hard_filter, filtered, results)
        returned ==
            IF filtered = <<>> THEN <<>>
            ELSE SliceTo(lists.results, top_k)
        eval_calls ==
            IF ~raised THEN {filtered # <<>>}
            ELSE IF ~apply_hard_filter THEN {TRUE}
            ELSE IF first_failing = fail_at /\ pool[fail_at] \in Range(filtered)
            THEN BOOLEAN
            ELSE {FALSE}
    IN
       /\ ranking' =
              IF raised
              THEN [op |-> op, fixed |-> fixed, pool |-> pool, top_k |-> top_k,
                    apply_hard_filter |-> apply_hard_filter, raised |-> TRUE,
                    failure |->
                       [item |-> first_failing,
                        kind |-> IF first_failing = fail_at THEN "external" ELSE "malformed",
                        attempts |-> 1]]
              ELSE [op |-> op, fixed |-> fixed, pool |-> pool, top_k |-> top_k,
                    apply_hard_filter |-> apply_hard_filter, raised |-> FALSE,
                    filtered |-> filtered, results |-> results, returned |-> returned,
                    pool_after |-> IF filtered = <<>> THEN pool ELSE lists.pool]
       /\ scorer' = IF raised THEN scorer ELSE memo
       /\ observed' =
              IF raised THEN observed
              ELSE observed \cup
                   {[op |-> op, fixed |-> fixed, member |-> returned[i].entity,
                     score |-> returned[i].score] : i \in DOMAIN returned}
       /\ members_used' = members_used + Len(pool)
       /\ \E eval_called \in eval_calls :
             system' = [system EXCEPT !.training = IF eval_called THEN FALSE ELSE @]
       /\ UNCHANGED <<candidate, job, now, result>>

\* the Scorer's outputs for the pairs of keys it has not been asked before
\* (a call that raises asks for none that matter)
NewAnswers(keys) ==
    [{keys[i] : i \in DOMAIN keys} \ DOMAIN scorer -> ScoreValues]

\* RecommenderSystem.recommend_candidates_for_job(job, candidate_pool, top_k,
\* apply_hard_filter); fail_at is the pool member during whose evaluation a
\* call of the Embedder or of the Scorer raises (0: none does)
RecommendCandidatesForJob(jb, pool, top_k, apply_hard_filter, fail_at) ==
    LET sound == \A i \in DOMAIN pool : pool[i] \notin system.raises
        filtered ==
            IF ~sound THEN <<>>
            ELSE IF apply_hard_filter
            THEN hard_filter_loop(pool, {c \in Range(pool) : system.should_filter_out[c, jb]})
            ELSE pool
        keys == [i \in DOMAIN filtered |->
                    <<system.prepare_features[filtered[i], jb],
                      system.prepare_features[filtered[1], jb]>>]
    IN  \E answers \in NewAnswers(IF fail_at = 0 THEN keys ELSE <<>>) :
            RankingCall("recommend_candidates_for_job", jb, pool, top_k,
                        apply_hard_filter, filtered, keys, fail_at, answers)

\* RecommenderSystem.recommend_jobs_for_candidate(candidate, job_pool, top_k,
\* apply_hard_filter)
RecommendJobsForCandidate(cand, pool, top_k, apply_hard_filter, fail_at) ==
    LET sound == cand \notin system.raises
        filtered ==
            IF ~sound THEN <<>>
            ELSE IF apply_hard_filter
            THEN hard_filter_loop(pool, {j \in Range(pool) : system.should_filter_out[cand, j]})
            ELSE pool
        keys == [i \in DOMAIN filtered |->
                    <<system.prepare_features[cand, filtered[1]],
                      system.prepare_features[cand, filtered[i]]>>]
    IN  \E answers \in NewAnswers(IF fail_at = 0 THEN keys ELSE <<>>) :
            RankingCall("recommend_jobs_for_candidate", cand, pool, top_k,
                        apply_hard_filter, filtered, keys, fail_at, answers)

\* the values of top_k
TopKs ==
    (0 - 1)..MaxPool

Init ==
    /\ candidate = BaseCandidate
    /\ job = BaseJob
    /\ now = Today
    /\ result = NoResult
    /\ ranking = NoRanking
    /\ scorer = <<>>
    /\ observed = {}
    /\ members_used = 0
    /\ system = RecommenderSystem

\* one ranking call on a pool of candidates
CandidatesForJob ==
    /\ ranking.op = "none"
    /\ \E jb \in JobNames, pool \in SeqsUpTo(CandidateNames, MaxPool),
          top_k \in TopKs, apply_hard_filter \in BOOLEAN :
          \E fail_at \in 0..Len(pool) :
             RecommendCandidatesForJob(jb, pool, top_k, apply_hard_filter, fail_at)

\* one ranking call on a pool of jobs
JobsForCandidate ==
    /\ ranking.op = "none"
    /\ \E cand \in CandidateNames, pool \in SeqsUpTo(JobNames, MaxPool),
          top_k \in TopKs, apply_hard_filter \in BOOLEAN :
          \E fail_at \in 0..Len(pool) :
             RecommendJobsForCandidate(cand, pool, top_k, apply_hard_filter, fail_at)

Next ==
    \/ CandidatesForJob
    \/ JobsForCandidate

\* every behaviour is one ranking call: a call depends on the calls before
\* it only through the Scorer, whose answers are chosen freely here
Spec ==
    Init /\ [][Next]_vars


(***************************************************************************)
(* Several ranking calls on one RecommenderSystem, one after the other     *)
(***************************************************************************)
\* the candidates and the jobs of the repeated calls
HyperCandidates ==
    {"A", "B"}

HyperJobs ==
    {"J1", "J2"}

\* the pools of a further call: not empty, and within what is left of
\* MaxMembers
PoolsLeft(names) ==
    {pool \in SeqsUpTo(names, MaxPool) :
        /\ pool # <<>>
        /\ members_used + Len(pool) <= MaxMembers}

\* a further call of recommend_candidates_for_job, top_k at least the pool
\* size and apply_hard_filter at its default
HyperCandidatesForJob ==
    \E jb \in HyperJobs, pool \in PoolsLeft(HyperCandidates) :
       RecommendCandidatesForJob(jb, pool, MaxPool, TRUE, 0)

\* a further call of recommend_jobs_for_candidate
HyperJobsForCandidate ==
    \E cand \in HyperCandidates, pool \in PoolsLeft(HyperJobs) :
       RecommendJobsForCandidate(cand, pool, MaxPool, TRUE, 0)

HyperNext ==
    \/ HyperCandidatesForJob
    \/ HyperJobsForCandidate

HyperSpec ==
    Init /\ [][HyperNext]_vars


(***************************************************************************)
(* Repeated feature extraction as time passes (specification ClockSpec)    *)
(***************************************************************************)
\* the number of days that pass after the first call
MaxDays ==
    2

\* the work histories and the required experience the calls are made with
ClockChoices ==
    {[BaseChoice EXCEPT !.candidate.work_experience = w,
                        !.job.level_of_experience = l] :
        w \in DOMAIN CandidateOptions("work_experience"),
        l \in DOMAIN JobOptions("level_of_experience")}

ClockInit ==
    /\ \E choice \in ClockChoices :
          /\ candidate = CandidateOf(choice)
          /\ job = JobOf(choice)
    /\ now = Today
    /\ result = NoResult
    /\ ranking = NoRanking
    /\ scorer = <<>>
    /\ observed = {}
    /\ members_used = 0
    /\ system = NoSystem

\* a day passes: datetime.now() moves on between two calls
Tick ==
    /\ now < Today + MaxDays
    /\ now' = now + 1
    /\ UNCHANGED <<candidate, job, result, rankVars>>

\* FeatureExtractor.extract_all_features(candidate, job), called on the day
\* now: the feature mapping it returns is recorded with the day of the call
ExtractAllFeaturesToday ==
    /\ observed' = observed \cup
          {IF MissingDate(candidate)
           THEN [op |-> "extract_all_features", day |-> now, raised |-> TRUE]
           ELSE [op |-> "extract_all_features", day |-> now, raised |-> FALSE,
                 features |-> extract_all_features(candidate, job, now)]}
    /\ UNCHANGED <<candidate, job, now, result, ranking, scorer, members_used, system>>

ClockNext ==
    \/ Tick
    \/ ExtractAllFeaturesToday

ClockSpec ==
    ClockInit /\ [][ClockNext]_vars

(***************************************************************************)
(* ModelWrapper.prepare_features over wrappers of several widths           *)
(* (specification PrepSpec)                                                *)
(***************************************************************************)
\* the largest width given to ModelWrapper(feature_dim=..., embedding_dim=...)
\* besides the default widths
MaxDim ==
    2

\* the largest number of entries of a mapping returned by an injected
\* feature extractor and of a vector returned by its embedder
MaxEntries ==
    3

\* the feature mappings of an injected feature extractor
InjectedDicts ==
    UNION {[{feature_keys[i] : i \in idx} -> {ROne, Rat(1, 2)}] :
              idx \in SUBSET (1..MaxEntries)}

\* the vectors of the embedder of an injected feature extractor: one of each
\* length, its entries all different
InjectedEmbeddings ==
    {[i \in 1..len |-> Rat(i, i + 1)] : len \in 0..MaxEntries}

\* the candidate and job pairs given to the repository's feature extractor
PrepChoices ==
    {[BaseChoice EXCEPT !.candidate.work_experience = w] :
        w \in DOMAIN CandidateOptions("work_experience")}

\* ModelWrapper(feature_extractor, feature_dim, embedding_dim), and the pair
\* prepare_features is called with
PrepInit ==
    /\ \E fdim \in (1..MaxDim) \cup {feature_dim},
          edim \in (1..MaxDim) \cup {embedding_dim} :
          system = [constructed |-> TRUE, feature_dim |-> fdim, embedding_dim |-> edim]
    /\ \E choice \in PrepChoices :
          /\ candidate = CandidateOf(choice)
          /\ job = JobOf(choice)
    /\ now = Today
    /\ result = NoResult
    /\ ranking = NoRanking
    /\ scorer = <<>>
    /\ observed = {}
    /\ members_used = 0

\* model.prepare_features(candidate, job) over the repository's
\* FeatureExtractor
PrepareFeatures ==
    /\ result.op = "none"
    /\ result' =
          IF MissingDate(candidate)
          THEN [op |-> "prepare_features", raised |-> TRUE]
          ELSE LET features_dict == extract_all_features(candidate, job, now)
                   embedding == encode_single(CombinedText(candidate, job))
               IN  [op |-> "prepare_features", raised |-> FALSE,
                    features_dict |-> features_dict,
                    encoded |-> embedding,
                    returned |-> prepare_arrays(features_dict, embedding, system)]
    /\ UNCHANGED <<candidate, job, now, rankVars>>

\* model.prepare_features(candidate, job) over a feature extractor that
\* returns features_dict for the pair and whose embedder returns embedding;
\* the pair is not read, so the call is made with the base pair
PrepareFeaturesWith(features_dict, embedding) ==
    /\ result.op = "none"
    /\ candidate = BaseCandidate
    /\ result' = [op |-> "prepare_features", raised |-> FALSE,
                  features_dict |-> features_dict,
                  encoded |-> embedding,
                  returned |-> prepare_arrays(features_dict, embedding, system)]
    /\ UNCHANGED <<candidate, job, now, rankVars>>

PrepNext ==
    \/ PrepareFeatures
    \/ \E features_dict \in InjectedDicts, embedding \in InjectedEmbeddings :
          PrepareFeaturesWith(features_dict, embedding)

PrepSpec ==
    PrepInit /\ [][PrepNext]_vars

(***************************************************************************)
(* metrics.py: dcg_at_k and ndcg_at_k (specification NdcgSpec)             *)
(***************************************************************************)
\* the largest number of items of a relevance list
MaxItems ==
    3

\* the largest relevance grade of an item (grades are 0, 1, 2, ...)
MaxRelevance ==
    2

\* the largest predicted score of an item
MaxScore ==
    2

\* the largest cut-off k
MaxCutOff ==
    5

\* 1 / np.log2(i + 1) for the positions i = 1, 2, ..., in thousandths, rounded
\* to the nearest thousandth (position 1 and position 3 are exact)
InverseDiscount ==
    <<1000, 631, 500, 431, 387, 356, 333>>

\* metrics.dcg_at_k
dcg_at_k(relevances, k) ==
    LET rel == SubSeq(relevances, 1, IF k < Len(relevances) THEN k ELSE Len(relevances))
    IN  IF Len(rel) = 0 THEN RZero
        ELSE RSum([i \in DOMAIN rel |-> Rat((2 ^ rel[i] - 1) * InverseDiscount[i], 1000)])

\* np.argsort(values)[::-1] for an array of at most 16 entries, which numpy
\* sorts by insertion (a stable sort): descending values, equal values in
\* descending order of their index
argsort_reversed(values) ==
    LET n == Len(values)
        sorted == SortByScoreDescending([i \in 1..n |-> [index |-> n + 1 - i,
                                                         score |-> values[n + 1 - i]]])
    IN  [i \in 1..n |-> sorted[i].index]

\* metrics.ndcg_at_k
ndcg_at_k(true_relevances, predicted_scores, k) ==
    IF Len(true_relevances) = 0 THEN RZero
    ELSE LET order == argsort_reversed(predicted_scores)
             rel_pred == [i \in DOMAIN order |-> true_relevances[order[i]]]
             dcg == dcg_at_k(rel_pred, k)
             ideal_order == argsort_reversed(true_relevances)
             rel_ideal == [i \in DOMAIN ideal_order |-> true_relevances[ideal_order[i]]]
             idcg == dcg_at_k(rel_ideal, k)
         IN  IF idcg = RZero THEN RZero ELSE RDiv(dcg, idcg)

NdcgInit ==
    /\ candidate = BaseCandidate
    /\ job = BaseJob
    /\ now = Today
    /\ result = NoResult
    /\ ranking = NoRanking
    /\ scorer = <<>>
    /\ observed = {}
    /\ members_used = 0
    /\ system = NoSystem

\* metrics.ndcg_at_k(true_relevances, predicted_scores, k) for the relevance
\* grades and the predicted scores of the same items
NdcgAtK(true_relevances, predicted_scores, k) ==
    /\ result.op = "none"
    /\ result' = [op |-> "ndcg_at_k",
                  true_relevances |-> true_relevances,
                  predicted_scores |-> predicted_scores,
                  k |-> k,
                  returned |-> ndcg_at_k(true_relevances, predicted_scores, k)]
    /\ UNCHANGED <<candidate, job, now, rankVars>>

NdcgNext ==
    \E n \in 0..MaxItems :
       \E true_relevances \in [1..n -> 0..MaxRelevance],
          predicted_scores \in [1..n -> 0..MaxScore],
          k \in 1..MaxCutOff :
          NdcgAtK(true_relevances, predicted_scores, k)

NdcgSpec ==
    NdcgInit /\ [][NdcgNext]_vars

(***************************************************************************)
(* Ranking calls interleaved with training epochs on one model wrapper     *)
(* (inference.py, training.py)                                             *)
(***************************************************************************)
\* the first steps of a ranking call, top_k at least the pool size and
\* apply_hard_filter at its default: the filter step, the return of [] when
\* nothing survives it, and model.model.eval()
RankingBegins(op, fixed, pool) ==
    /\ "pending" \notin DOMAIN ranking
    /\ LET filtered_out ==
               IF op = "recommend_candidates_for_job"
               THEN {c \in Range(pool) : system.should_filter_out[c, fixed]}
               ELSE {j \in Range(pool) : system.should_filter_out[fixed, j]}
       IN  IF hard_filter_loop(pool, filtered_out) = <<>>
           THEN IF op = "recommend_candidates_for_job"
                THEN RecommendCandidatesForJob(fixed, pool, MaxPool, TRUE, 0)
                ELSE RecommendJobsForCandidate(fixed, pool, MaxPool, TRUE, 0)
           ELSE /\ ranking' = [op |-> op, fixed |-> fixed, pool |-> pool,
                               top_k |-> MaxPool, apply_hard_filter |-> TRUE,
                               pending |-> TRUE]
                /\ system' = [system EXCEPT !.training = FALSE]
                /\ UNCHANGED <<candidate, job, now, result, scorer, observed,
                               members_used>>

\* the remaining steps of the ranking call in progress: the encoders, the
\* similarities, the sort and the slice.  In training mode the first
\* encoder call raises ValueError: BatchNorm1d refuses a batch of one row.
RankingEncodes ==
    /\ "pending" \in DOMAIN ranking
    /\ IF system.training
       THEN /\ ranking' = [op |-> ranking.op, fixed |-> ranking.fixed,
                           pool |-> ranking.pool, top_k |-> ranking.top_k,
                           apply_hard_filter |-> TRUE, raised |-> TRUE,
                           failure |-> [item |-> 1, kind |-> "training mode",
                                        attempts |-> 1]]
            /\ members_used' = members_used + Len(ranking.pool)
            /\ UNCHANGED <<candidate, job, now, result, scorer, observed, system>>
       ELSE IF ranking.op = "recommend_candidates_for_job"
            THEN RecommendCandidatesForJob(ranking.fixed, ranking.pool,
                                           ranking.top_k, TRUE, 0)
            ELSE RecommendJobsForCandidate(ranking.fixed, ranking.pool,
                                           ranking.top_k, TRUE, 0)

\* Trainer.train_epoch(dataloader) on the recommender's model wrapper, for a
\* dataloader without batches: model.model.train(), no optimizer step, and
\* 0.0 returned
TrainEpoch ==
    /\ system' = [system EXCEPT !.training = TRUE]
    /\ result' = [op |-> "train_epoch", returned |-> RZero]
    /\ UNCHANGED <<candidate, job, now, ranking, scorer, observed, members_used>>

ModeNext ==
    \/ \E jb \in HyperJobs, pool \in PoolsLeft(HyperCandidates) :
          RankingBegins("recommend_candidates_for_job", jb, pool)
    \/ \E cand \in HyperCandidates, pool \in PoolsLeft(HyperJobs) :
          RankingBegins("recommend_jobs_for_candidate", cand, pool)
    \/ RankingEncodes
    \/ TrainEpoch

ModeSpec ==
    Init /\ [][ModeNext]_vars


(***************************************************************************)
(* Properties of the hard filter, the features and the layer scores        *)
(* (specification FeatSpec)                                                *)
(***************************************************************************)
\* C1: should_filter_out checks the mandatory criteria first, the mandatory
\* languages second and, for a job that is not online, the location third;
\* the reason it returns is that of the first check that fails (the criteria
\* reason when both the criteria and the languages fail), and it keeps the
\* pair only when every check passes.
C1_FirstFailingCheckWins ==
    (result.op = "should_filter_out" /\ ~result.raised) =>
        LET features == result.features
            criteria_fail ==
                FeatureGet(features, "mandatory_criteria_all_pass") = RZero
            languages_fail ==
                FeatureGet(features, "all_mandatory_languages_ok") = RZero
            location_fail ==
                /\ Lower(job.presence_type) # Str.online
                /\ FeatureGet(features, "location_match") = RZero
        IN  /\ criteria_fail =>
                result.decision.reason = "Failed mandatory criteria"
            /\ (~criteria_fail /\ languages_fail) =>
                result.decision.reason = "Mandatory languages not satisfied"
            /\ (~criteria_fail /\ ~languages_fail /\ location_fail) =>
                result.decision.reason =
                    "Location mismatch and candidate not willing to relocate"
            /\ result.decision.should_filter
                   = (criteria_fail \/ languages_fail \/ location_fail)
            /\ ~result.decision.should_filter =>
                result.decision.reason = "Passed all hard filters"

\* a pair whose features fail the criteria check and the language check has
\* been filtered for the criteria
C1_Witness ==
    /\ result.op = "should_filter_out"
    /\ ~result.raised
    /\ FeatureGet(result.features, "mandatory_criteria_all_pass") = RZero
    /\ FeatureGet(result.features, "all_mandatory_languages_ok") = RZero
    /\ result.decision.should_filter
    /\ result.decision.reason = "Failed mandatory criteria"

\* C7: for a job without a mandatory language requirement,
\* extract_language_features gives mandatory_language_coverage_ratio = 1 and
\* all_mandatory_languages_ok = 1, whoever the candidate is.
C7_EmptyMandatorySetIsSatisfied ==
    (/\ result.op = "extract_all_features"
     /\ ~result.raised
     /\ \A i \in DOMAIN job.languages :
           ~(job.languages[i].is_dict /\ job.languages[i].Level_of_cretical > 0)) =>
        /\ result.features.mandatory_language_coverage_ratio = ROne
        /\ result.features.all_mandatory_languages_ok = ROne

\* C8: when a mandatory language requirement of the job asks for an ordinal
\* above the candidate's ordinal for that language (0 when the candidate does
\* not list it), all_mandatory_languages_ok = 0 and S_lang = 0.
C8_UnmetMandatoryLanguageGivesZero ==
    (/\ result.op = "compute_aggregated_score"
     /\ ~result.raised
     /\ \E i \in DOMAIN job.languages :
           /\ job.languages[i].is_dict
           /\ job.languages[i].Level_of_cretical > 0
           /\ job.languages[i].Level_of_cretical
                 > get_candidate_language_level(candidate, job.languages[i].language)) =>
        /\ result.features.all_mandatory_languages_ok = RZero
        /\ result.layer_scores.S_lang = RZero

\* C9: level_to_ordinal gives A1, A2, B1, B2, C1, C2, Native the ordinals
\* 1 to 7, gives 0 to a label that is none of them (in any letter case), and
\* so always answers with an integer from 0 to 7.
C9_LevelOrdinals ==
    (result.op = "level_to_ordinal") =>
        LET labels == <<Str.A1, Str.A2, Str.B1, Str.B2, Str.C1, Str.C2, Str.Native>>
        IN  /\ \A k \in DOMAIN labels :
                  result.level = labels[k] => result.ordinal = k
            /\ (\A k \in DOMAIN labels : Upper(result.level) # Upper(labels[k])) =>
                  result.ordinal = 0
            /\ result.ordinal \in 0..7

\* C10: the layer scores S_edu, S_exp, S_lang, S_skill and S_base that
\* compute_aggregated_score returns lie in [0, 1], and so do the ratio
\* features field_match_score, mandatory_language_coverage_ratio,
\* preferred_language_coverage_ratio, skill_overlap_ratio and
\* weighted_skill_match_score (skill importances being in [0, 1]).
C10_ScoresAndRatiosInUnitInterval ==
    LET in_unit(r) == RLeq(RZero, r) /\ RLeq(r, ROne)
        importances_in_unit ==
            \A i \in DOMAIN job.skills :
                job.skills[i].importance # <<>> => in_unit(job.skills[i].importance[1])
    IN  (/\ result.op \in {"extract_all_features", "compute_aggregated_score"}
         /\ ~result.raised
         /\ importances_in_unit) =>
            /\ \A key \in {"field_match_score", "mandatory_language_coverage_ratio",
                           "preferred_language_coverage_ratio", "skill_overlap_ratio",
                           "weighted_skill_match_score"} :
                  in_unit(result.features[key])
            /\ result.op = "compute_aggregated_score" =>
                  /\ in_unit(result.layer_scores.S_edu)
                  /\ in_unit(result.layer_scores.S_exp)
                  /\ in_unit(result.layer_scores.S_lang)
                  /\ in_unit(result.layer_scores.S_skill)
                  /\ in_unit(result.layer_scores.S_base)

\* a pair has been scored whose experience terms are negative (a record that
\* ends before it starts), with the experience score held at 0
C10_Witness ==
    /\ result.op = "compute_aggregated_score"
    /\ ~result.raised
    /\ RLt(result.features.total_years_experience, RZero)
    /\ result.layer_scores.S_exp = RZero
    /\ RLt(RZero, result.layer_scores.S_base)

(***************************************************************************)
(* Properties of one ranking call (specification Spec)                     *)
(***************************************************************************)
\* C2: in both directions the returned list is the first top_k entries of
\* the surviving pool members in descending order of score, members of equal
\* score in their pool order.
C2_ReturnedIsStableSortedPrefix ==
    (ranking.op # "none" /\ ~ranking.raised) =>
        LET pool == ranking.pool
            dropped(i) ==
                /\ ranking.apply_hard_filter
                /\ IF ranking.op = "recommend_candidates_for_job"
                   THEN system.should_filter_out[pool[i], ranking.fixed]
                   ELSE system.should_filter_out[ranking.fixed, pool[i]]
            kept == SelectIdx(Len(pool), {i \in DOMAIN pool : ~dropped(i)})
            results == ranking.results
            returned == ranking.returned
            ahead(i, j) ==
                \/ results[i].score > results[j].score
                \/ results[i].score = results[j].score /\ i < j
            place(i) == 1 + Cardinality({j \in DOMAIN results : ahead(j, i)})
        IN  /\ Len(results) = Len(kept)
            /\ \A k \in DOMAIN results : results[k].entity = pool[kept[k]]
            /\ Len(returned) <= Len(results)
            /\ ranking.top_k >= 0 =>
                  Len(returned) = IF ranking.top_k < Len(results)
                                  THEN ranking.top_k ELSE Len(results)
            /\ \A k \in DOMAIN returned :
                  \E i \in DOMAIN results : place(i) = k /\ returned[k] = results[i]

\* the pool [A, B, C] with scores [0.2, 0.9, 0.5] and top_k = 2 has
\* returned [B, C]
C2_Witness ==
    /\ ranking.op = "recommend_candidates_for_job"
    /\ ~ranking.raised
    /\ ranking.pool = <<"A", "B", "C">>
    /\ ranking.top_k = 2
    /\ [i \in DOMAIN ranking.results |-> ranking.results[i].score] = <<2, 9, 5>>
    /\ Entities(ranking.returned) = <<"B", "C">>

\* C4: with the hard filter applied, no pool member that should_filter_out
\* filters out is in the result, and every returned entity is a member of
\* the pool.
C4_NoFilteredMemberReturned ==
    (ranking.op # "none" /\ ~ranking.raised) =>
        \A k \in DOMAIN ranking.returned :
            LET member == ranking.returned[k].entity
            IN  /\ \E i \in DOMAIN ranking.pool : ranking.pool[i] = member
                /\ ranking.apply_hard_filter =>
                      ~(IF ranking.op = "recommend_candidates_for_job"
                        THEN system.should_filter_out[member, ranking.fixed]
                        ELSE system.should_filter_out[ranking.fixed, member])

\* a call with the hard filter on a pool with a member that is filtered out
\* and a member that is not has returned a result
C4_Witness ==
    /\ ranking.op = "recommend_candidates_for_job"
    /\ ~ranking.raised
    /\ ranking.apply_hard_filter
    /\ \E i \in DOMAIN ranking.pool :
          system.should_filter_out[ranking.pool[i], ranking.fixed]
    /\ ranking.returned # <<>>

\* C5: a failure on one pair (a missing date, a failing Embedder or Scorer
\* call) takes only that pair out of the ranking: the call does not raise.
C5_FailureExcludesOnlyThePair ==
    (ranking.op # "none" /\ "failure" \in DOMAIN ranking) =>
        ~ranking.raised

\* C6: a failing Embedder or Scorer call is tried again, a bounded number of
\* times, before the item is given up, and the call does not raise.
C6_ExternalFailureIsRetried ==
    (/\ ranking.op # "none"
     /\ "failure" \in DOMAIN ranking
     /\ ranking.failure.kind = "external") =>
        /\ ranking.failure.attempts > 1
        /\ ~ranking.raised

(***************************************************************************)
(* Properties of several ranking calls (specification HyperSpec)           *)
(***************************************************************************)
\* C3: the score of a pool member depends only on the member and on the
\* fixed job or candidate: two calls of the same operation with the same
\* fixed side give a member the same score, whatever else is in their pools.
C3_ScoreDependsOnlyOnThePair ==
    \A o1 \in observed, o2 \in observed :
        (o1.op = o2.op /\ o1.fixed = o2.fixed /\ o1.member = o2.member) =>
            o1.score = o2.score

(***************************************************************************)
(* Further properties of the features, the layer scores and the hard       *)
(* filter (specification FeatSpec)                                         *)
(***************************************************************************)
\* C11: compute_aggregated_score uses the research weights (edu .35, exp .25,
\* lang .15, skill .25) exactly when the lower-cased title and description of
\* the job hold one of research, scientist, r&d, phd, postdoc, and the default
\* weights (edu .15, exp .45, lang .15, skill .25) otherwise; the weights sum
\* to 1, S_base is the sum of the four layer scores under those weights, and
\* the weights are returned with the layer scores.
C11_WeightSetFollowsTheJobText ==
    (result.op = "compute_aggregated_score" /\ ~result.raised) =>
        LET s == result.layer_scores
            w == s.weights
            text == Lower(job.title) \o <<" ">> \o Lower(job.description)
            is_research ==
                \/ Contains(text, <<"r","e","s","e","a","r","c","h">>)
                \/ Contains(text, <<"s","c","i","e","n","t","i","s","t">>)
                \/ Contains(text, <<"r","&","d">>)
                \/ Contains(text, <<"p","h","d">>)
                \/ Contains(text, <<"p","o","s","t","d","o","c">>)
        IN  /\ w = IF is_research
                   THEN [w_edu |-> Rat(35, 100), w_exp |-> Rat(25, 100),
                         w_lang |-> Rat(15, 100), w_skill |-> Rat(25, 100)]
                   ELSE [w_edu |-> Rat(15, 100), w_exp |-> Rat(45, 100),
                         w_lang |-> Rat(15, 100), w_skill |-> Rat(25, 100)]
            /\ RAdd(RAdd(w.w_edu, w.w_exp), RAdd(w.w_lang, w.w_skill)) = ROne
            /\ s.S_base = RAdd(RAdd(RAdd(RMul(w.w_edu, s.S_edu), RMul(w.w_exp, s.S_exp)),
                                    RMul(w.w_lang, s.S_lang)),
                               RMul(w.w_skill, s.S_skill))

\* a job whose title has no keyword but whose description has "r&d" was
\* scored with the research weights
C11_Witness ==
    /\ result.op = "compute_aggregated_score" /\ ~result.raised
    /\ job.title = Str.Software_Engineer
    /\ job.description = Str.R_and_D_lab
    /\ result.layer_scores.weights.w_edu = Rat(35, 100)
    /\ result.layer_scores.weights.w_exp = Rat(25, 100)


\* C12: field_match_score is the Jaccard similarity between the normalized
\* departments and specialities of all education entries of the candidate and
\* the normalized required department and speciality of the job: 0 when the
\* two sets are disjoint or both empty, 1 when they are identical.
C12_FieldMatchIsJaccardOverDepartmentsAndSpecialities ==
    (result.op = "extract_all_features" /\ ~result.raised) =>
        LET candidate_set ==
                {normalize_text(candidate.education[e].department) :
                    e \in DOMAIN candidate.education}
                \cup
                {normalize_text(candidate.education[e].speciality) :
                    e \in DOMAIN candidate.education}
            required_set ==
                (IF Truthy(job.education_department)
                 THEN {normalize_text(job.education_department[1])} ELSE {})
                \cup
                (IF Truthy(job.education_speciality)
                 THEN {normalize_text(job.education_speciality[1])} ELSE {})
            both == candidate_set \cup required_set
        IN  /\ result.features.field_match_score =
                  IF both = {} THEN RZero
                  ELSE Rat(Cardinality(candidate_set \cap required_set), Cardinality(both))
            /\ (candidate_set \cap required_set = {}) =>
                   result.features.field_match_score = RZero
            /\ (candidate_set = required_set /\ both # {}) =>
                   result.features.field_match_score = ROne


\* C13: S_edu is 0 whenever the candidate's highest degree level is below the
\* level the job requires, whatever field_match_score is; otherwise it is
\* 0.7, plus 0.2 if field_match_score > 0.5, plus a further 0.1 if
\* field_match_score > 0.8, capped at 1.0.
C13_EducationScore ==
    (result.op = "compute_aggregated_score" /\ ~result.raised) =>
        LET f == result.features
            fms == f.field_match_score
            first_bonus == IF RLt(Rat(1, 2), fms) THEN Rat(2, 10) ELSE RZero
            second_bonus == IF RLt(Rat(4, 5), fms) THEN Rat(1, 10) ELSE RZero
        IN  result.layer_scores.S_edu =
               IF RLt(f.candidate_highest_degree_level, f.required_min_degree_level)
               THEN RZero
               ELSE RMin(RAdd(Rat(7, 10), RAdd(first_bonus, second_bonus)), ROne)

\* a candidate with the required degree whose departments cover two of three
\* fields (field_match_score 2/3) got 0.9
C13_Witness ==
    /\ result.op = "compute_aggregated_score" /\ ~result.raised
    /\ result.features.field_match_score = Rat(2, 3)
    /\ result.features.has_required_degree_level = ROne
    /\ result.layer_scores.S_edu = Rat(9, 10)


\* C14: S_skill is 0 whenever weighted_skill_match_score, the weighted coverage
\* of the job's required skills, is below 0.5; otherwise it is
\* 0.6 * skill_overlap_ratio + 0.4 * weighted_skill_match_score clamped to
\* [0, 1].
C14_SkillScoreGatedByWeightedCoverage ==
    (result.op = "compute_aggregated_score" /\ ~result.raised) =>
        LET f == result.features
        IN  result.layer_scores.S_skill =
               IF RLt(f.weighted_skill_match_score, Rat(1, 2))
               THEN RZero
               ELSE RMin(RMax(RAdd(RMul(Rat(6, 10), f.skill_overlap_ratio),
                                   RMul(Rat(4, 10), f.weighted_skill_match_score)),
                              RZero), ROne)


\* C15: for a job whose presence mode is online in any letter case,
\* extract_location_features gives location_match = 1 and
\* geodesic_distance = 0 whatever the cities and the relocation flag are, and
\* should_filter_out, over any feature extractor, never returns the location
\* reason for such a job.
C15_OnlineJobIgnoresLocation ==
    LET is_online ==
            /\ Len(job.presence_type) = 6
            /\ job.presence_type[1] \in {"o", "O"}
            /\ job.presence_type[2] \in {"n", "N"}
            /\ job.presence_type[3] \in {"l", "L"}
            /\ job.presence_type[4] \in {"i", "I"}
            /\ job.presence_type[5] \in {"n", "N"}
            /\ job.presence_type[6] \in {"e", "E"}
    IN  is_online =>
           /\ (result.op \in {"extract_all_features", "compute_aggregated_score"}
                  /\ ~result.raised) =>
                 /\ result.features.location_match = ROne
                 /\ result.features.geodesic_distance = RZero
           /\ (result.op = "should_filter_out" /\ ~result.raised) =>
                 result.decision.reason #
                     "Location mismatch and candidate not willing to relocate"

\* the features of a London candidate who does not relocate were extracted
\* for an 'Online' job in Paris
C15_Witness ==
    /\ job.presence_type = Str.Online
    /\ job.city = Str.Paris
    /\ candidate.city = Str.London
    /\ ~candidate.ready_to_relocate
    /\ result.op = "extract_all_features" /\ ~result.raised
    /\ result.features.location_match = ROne


\* C16: for a job that is not online, location_match = 1 if and only if the
\* candidate's city and country both equal the job's, letter case ignored, or
\* the candidate is willing to relocate; hence should_filter_out rejects a
\* candidate on the location check exactly when the job is not online, the
\* location differs and the candidate is not willing to relocate, and the
\* location reason is the one returned when the two earlier checks pass.
C16_LocationMatchAndLocationFilter ==
    LET not_online == Lower(job.presence_type) # Str.online
        same_place ==
            /\ Lower(candidate.city) = Lower(job.city)
            /\ Lower(candidate.country) = Lower(job.country)
        mismatch == not_online /\ ~same_place /\ ~candidate.ready_to_relocate
        location_reason ==
            result.decision.reason =
                "Location mismatch and candidate not willing to relocate"
    IN  /\ (result.op \in {"extract_all_features", "compute_aggregated_score"}
               /\ ~result.raised /\ not_online) =>
              (result.features.location_match = ROne
                  <=> (same_place \/ candidate.ready_to_relocate))
        /\ (result.op = "should_filter_out" /\ ~result.raised
               /\ result.extractor = "FeatureExtractor") =>
              /\ (not_online /\ result.features.location_match = RZero) <=> mismatch
              /\ mismatch => result.decision.should_filter
              /\ location_reason => mismatch
              /\ (/\ mismatch
                  /\ result.features.mandatory_criteria_all_pass = ROne
                  /\ result.features.all_mandatory_languages_ok = ROne)
                 => location_reason

\* a candidate in the job's city under another country, not willing to
\* relocate, was filtered for the location
C16_Witness ==
    /\ result.op = "should_filter_out" /\ ~result.raised
    /\ result.extractor = "FeatureExtractor"
    /\ job.presence_type = Str.onsite
    /\ candidate.city = Str.paris /\ job.city = Str.Paris
    /\ candidate.country = Str.UK /\ job.country = Str.France
    /\ ~candidate.ready_to_relocate
    /\ result.decision.should_filter
    /\ result.decision.reason = "Location mismatch and candidate not willing to relocate"


\* C17: S_exp = 0.4 * clamp(total_years / required_years, 0, 1)
\*            + 0.3 * clamp(years_in_required_titles / required_years, 0, 1)
\*            + 0.3 * (title_similarity_score + 1) / 2,
\* each ratio term clamped to [0, 1] on its own and taken as 1 when
\* required_years is 0, the result clamped to [0, 1]; also when a year total
\* is negative (a record whose end precedes its start).
C17_ExperienceScoreClampsEachRatio ==
    (result.op = "compute_aggregated_score" /\ ~result.raised) =>
        LET f == result.features
            required_years == parse_experience_level(job.level_of_experience)
            clamp(x) == RMin(RMax(x, RZero), ROne)
            ratio(years) ==
                IF required_years = RZero THEN ROne
                ELSE clamp(RDiv(years, required_years))
        IN  result.layer_scores.S_exp =
               clamp(RAdd(RAdd(RMul(Rat(4, 10), ratio(f.total_years_experience)),
                               RMul(Rat(3, 10),
                                    ratio(f.years_experience_in_required_titles))),
                          RMul(Rat(3, 10),
                               RDiv(RAdd(f.title_similarity_score, ROne), RInt(2)))))


(***************************************************************************)
(* Properties of repeated feature extraction (specification ClockSpec)     *)
(***************************************************************************)
\* C18: two calls of extract_all_features on the same candidate and job, with
\* a deterministic Embedder, return identical feature mappings, also when
\* the candidate has an experience record without an end date and the two
\* calls are made at different times.
C18_ExtractionIsIdempotent ==
    \A o1 \in observed, o2 \in observed :
        /\ o1.raised = o2.raised
        /\ ~o1.raised => o1.features = o2.features


(***************************************************************************)
(* Properties of ModelWrapper.prepare_features (specification PrepSpec)    *)
(***************************************************************************)
\* C19: prepare_features returns a feature vector of exactly feature_dim
\* entries and an embedding of exactly embedding_dim entries: the feature
\* values in sorted key order, and the embedder's vector, are padded with
\* zeros on the right when shorter than the width and truncated on the right
\* when longer, so the first min(n, width) entries are kept unchanged and in
\* order.
C19_PreparedArraysHaveTheDeclaredWidths ==
    (result.op = "prepare_features" /\ ~result.raised) =>
        LET d == result.features_dict
            feature_vector == result.returned[1]
            embedding == result.returned[2]
            n == Cardinality(DOMAIN d)
            \* the position of the key feature_keys[i] among the sorted keys of d
            position(i) == Cardinality({j \in 1..i : feature_keys[j] \in DOMAIN d})
        IN  /\ DOMAIN feature_vector = 1..system.feature_dim
            /\ DOMAIN embedding = 1..system.embedding_dim
            /\ \A i \in DOMAIN feature_keys :
                  (feature_keys[i] \in DOMAIN d /\ position(i) <= system.feature_dim) =>
                      feature_vector[position(i)] = d[feature_keys[i]]
            /\ \A p \in (n + 1)..system.feature_dim : feature_vector[p] = RZero
            /\ \A p \in 1..system.embedding_dim :
                  embedding[p] = IF p <= Len(result.encoded)
                                 THEN result.encoded[p] ELSE RZero

\* a wrapper two features wide was given three features by its extractor and
\* kept the first two of them
C19_Witness ==
    /\ result.op = "prepare_features" /\ ~result.raised
    /\ system.feature_dim = 2
    /\ Cardinality(DOMAIN result.features_dict) = 3
    /\ result.returned[1] = <<result.features_dict[feature_keys[1]],
                              result.features_dict[feature_keys[2]]>>
    /\ result.features_dict[feature_keys[1]] # result.features_dict[feature_keys[2]]
    /\ system.embedding_dim = 2
    /\ result.encoded = <<Rat(1, 2)>>
    /\ result.returned[2] = <<Rat(1, 2), RZero>>


(***************************************************************************)
(* Properties of the ranking metric (specification NdcgSpec)               *)
(***************************************************************************)
\* C20: ndcg_at_k returns 1.0 for every non-empty relevance list whose
\* predicted scores order the items by non-increasing relevance (an item of
\* higher relevance has the higher score), and 0.0 for an empty relevance
\* list.
C20_PerfectOrderGivesOne ==
    (result.op = "ndcg_at_k") =>
        LET rel == result.true_relevances
            scores == result.predicted_scores
            perfectly_ordered ==
                \A i \in DOMAIN rel, j \in DOMAIN rel :
                    rel[i] > rel[j] => scores[i] > scores[j]
        IN  /\ rel = <<>> => result.returned = RZero
            /\ (rel # <<>> /\ perfectly_ordered) => result.returned = ROne


(***************************************************************************)
(* Properties of the explanations, of the hard filter's stub and of the    *)
(* parsed requirements (specification FeatSpec)                            *)
(***************************************************************************)
\* C21: the strengths list of an explanation holds the education strength
\* exactly when S_edu > 0.8, the skills strength exactly when S_skill > 0.8,
\* the experience strength exactly when S_exp > 0.7, the similar-role
\* strength exactly when title_similarity_score > 0.7 and the current-role
\* strength exactly when recent_role_match is 1.
C21_StrengthsFollowTheThresholds ==
    (result.op = "generate_explanation" /\ ~result.raised) =>
        LET strengths == Range(result.explanation.strengths)
            scores == result.layer_scores
        IN  /\ ("Excellent education match" \in strengths)
                  <=> RLt(Rat(8, 10), scores.S_edu)
            /\ ("High skills overlap" \in strengths)
                  <=> RLt(Rat(8, 10), scores.S_skill)
            /\ ("Strong relevant experience" \in strengths)
                  <=> RLt(Rat(7, 10), scores.S_exp)
            /\ ("Very similar role experience" \in strengths)
                  <=> RLt(Rat(7, 10), result.features.title_similarity_score)
            /\ ("Current role aligns with job" \in strengths)
                  <=> (result.features.recent_role_match = ROne)


\* C22: whatever the number of critical requirements of the job, none
\* included, the extracted mandatory_criteria_all_pass is 1 and the number
\* of criteria passed is the number of criteria, so should_filter_out over
\* the repository's extractor never answers "Failed mandatory criteria".
C22_MandatoryCriteriaAlwaysPass ==
    /\ (result.op \in {"extract_all_features", "should_filter_out"}
        /\ ~result.raised
        /\ (result.op = "should_filter_out" => result.extractor = "FeatureExtractor"))
       => /\ result.features.mandatory_criteria_all_pass = ROne
          /\ result.features.num_mandatory_criteria_passed
                = RInt(Len(job.critical_requirements))
    /\ (result.op = "should_filter_out" /\ ~result.raised
        /\ result.extractor = "FeatureExtractor")
       => result.decision.reason # "Failed mandatory criteria"

C22_Witness ==
    /\ result.op = "should_filter_out"
    /\ ~result.raised
    /\ result.extractor = "FeatureExtractor"
    /\ Len(job.critical_requirements) = 2
    /\ result.decision.should_filter
    /\ result.decision.reason = "Mandatory languages not satisfied"


(***************************************************************************)
(* Further properties of one ranking call (specification Spec)             *)
(***************************************************************************)
\* C23: a ranking call whose pool has no member that survives the hard
\* filter, the empty pool included, returns the empty list, does not raise
\* and does not ask the Scorer; a call with top_k >= 0 returns exactly
\* min(top_k, number of survivors) entries.  The survivors are the pool
\* members that should_filter_out keeps when the filter is applied, and the
\* whole pool when it is not.
C23_NoSurvivorGivesTheEmptyList ==
    (ranking.op # "none") =>
        IF ranking.raised
        THEN ranking.failure.item \in DOMAIN ranking.pool
        ELSE LET pool == ranking.pool
                 kept(member) ==
                    IF ranking.op = "recommend_candidates_for_job"
                    THEN ~system.should_filter_out[member, ranking.fixed]
                    ELSE ~system.should_filter_out[ranking.fixed, member]
                 survivors ==
                    IF ranking.apply_hard_filter
                    THEN FilterSeq(pool, {member \in Range(pool) : kept(member)})
                    ELSE pool
             IN  /\ (survivors = <<>>) =>
                       /\ ranking.returned = <<>>
                       /\ scorer = <<>>
                 /\ (ranking.top_k >= 0) =>
                       Len(ranking.returned)
                          = IF ranking.top_k < Len(survivors)
                            THEN ranking.top_k ELSE Len(survivors)

C23_Witness ==
    /\ ranking.op = "recommend_candidates_for_job"
    /\ ~ranking.raised
    /\ ranking.apply_hard_filter
    /\ Len(ranking.pool) = 2
    /\ ranking.top_k = 2
    /\ \A i \in DOMAIN ranking.pool :
          system.should_filter_out[ranking.pool[i], ranking.fixed]
    /\ ranking.returned = <<>>
    /\ scorer = <<>>


(***************************************************************************)
(* Properties of interleaved calls (specification ModeSpec)                *)
(***************************************************************************)
\* C24: no state is shared between invocations: a ranking call that has
\* returned or raised has the outcome its arguments and the Scorer
\* determine, which is the sorted list of its survivors with the Scorer's
\* scores, whatever ranking calls and training epochs on the same
\* recommender ran before it or between its steps.
C24_ResultDeterminedByArgumentsAndScorer ==
    (ranking.op # "none" /\ "pending" \notin DOMAIN ranking) =>
        /\ ~ranking.raised
        /\ LET pool == ranking.pool
               for_job == ranking.op = "recommend_candidates_for_job"
               survivors ==
                  FilterSeq(pool,
                            {member \in Range(pool) :
                                IF for_job
                                THEN ~system.should_filter_out[member, ranking.fixed]
                                ELSE ~system.should_filter_out[ranking.fixed, member]})
               key(member) ==
                  IF for_job
                  THEN <<system.prepare_features[member, ranking.fixed],
                         system.prepare_features[survivors[1], ranking.fixed]>>
                  ELSE <<system.prepare_features[ranking.fixed, survivors[1]],
                         system.prepare_features[ranking.fixed, member]>>
           IN  ranking.returned =
                  SliceTo(SortByScoreDescending(
                             [i \in DOMAIN survivors |->
                                 [entity |-> survivors[i],
                                  score |-> scorer[key(survivors[i])]]]),
                          ranking.top_k)


(***************************************************************************)
(* The caller's lists (specification Spec)                                 *)
(***************************************************************************)
\* C25: a ranking call does not change its inputs: when it returns, with the
\* hard filter applied or not, the caller's pool list holds the members it
\* held at the call, in the same order.
C25_PoolListIsLeftAsItWas ==
    (ranking.op # "none" /\ ~ranking.raised) =>
        ranking.pool_after = ranking.pool

C25_Witness ==
    /\ ranking.op = "recommend_candidates_for_job"
    /\ ~ranking.raised
    /\ ~ranking.apply_hard_filter
    /\ Len(ranking.pool) = 3
    /\ ranking.top_k = 1
    /\ Entities(ranking.returned) = <<ranking.pool[3]>>
    /\ ranking.pool_after = ranking.pool


(***************************************************************************)
(* Further properties of the hard filter and of the features              *)
(* (specification FeatSpec)                                                *)
(***************************************************************************)
\* C26: for a job without a mandatory language requirement, a job without
\* any language requirement included, should_filter_out over the
\* repository's extractor never answers "Mandatory languages not
\* satisfied", and it keeps the candidate when the job is online or the
\* location matches.
C26_NoMandatoryLanguageNeverFilters ==
    (/\ result.op = "should_filter_out"
     /\ ~result.raised
     /\ result.extractor = "FeatureExtractor"
     /\ MandatoryRequirements(job) = <<>>) =>
        /\ result.decision.reason # "Mandatory languages not satisfied"
        /\ (\/ Lower(job.presence_type) = Str.online
            \/ result.features.location_match = ROne)
           => ~result.decision.should_filter


\* C27: has_required_degree_level is 1 exactly when the candidate's highest
\* level is at least the job's required level, where a label, of the
\* candidate or of the job, has the level of the first entry of high school
\* (1), bachelor (2), master (3), phd (4) that occurs in its lower-cased
\* text, the candidate's level is the largest over the education entries,
\* and a requirement that is unset or names no entry has level 0.
C27_DegreeLevelsByFirstVocabularyEntry ==
    (result.op = "extract_all_features" /\ ~result.raised) =>
        LET entries(label) ==
               {k \in DOMAIN degree_levels : Contains(Lower(label), degree_levels[k][1])}
            level(label) ==
               IF entries(label) = {} THEN 0
               ELSE degree_levels[SetMin(entries(label))][2]
            candidate_highest ==
               SetMax({0} \cup {level(candidate.education[e].level_of_education) :
                                   e \in DOMAIN candidate.education})
            required_level ==
               IF Truthy(job.education_level) THEN level(job.education_level[1]) ELSE 0
        IN  result.features.has_required_degree_level
               = Flag(candidate_highest >= required_level)


\* C28: weighted_skill_match_score is the sum of the importances of the job
\* skills the candidate has over the sum of the importances of all job
\* skills, where an importance that is not given counts as 1 and a given
\* importance counts as it is, 0 included; it is 0 when the candidate has
\* none of the job's skills.
C28_WeightedSkillMatchUsesGivenImportances ==
    (result.op = "extract_all_features" /\ ~result.raised) =>
        LET importance(skill) ==
               IF skill.importance = <<>> THEN ROne ELSE skill.importance[1]
            candidate_skill_ids ==
               {map_skill(candidate.skills[i].skill_name) : i \in DOMAIN candidate.skills}
            matched ==
               {i \in DOMAIN job.skills :
                   map_skill(job.skills[i].skill_name) \in candidate_skill_ids}
            total_importance ==
               RSum([i \in DOMAIN job.skills |-> importance(job.skills[i])])
            matched_importance ==
               RSum([i \in DOMAIN job.skills |->
                       IF i \in matched THEN importance(job.skills[i]) ELSE RZero])
        IN  /\ RLt(RZero, total_importance) =>
                  result.features.weighted_skill_match_score
                     = RDiv(matched_importance, total_importance)
            /\ (matched = {}) => result.features.weighted_skill_match_score = RZero


\* C29: the years a job's experience-level label requires are 0 when its
\* lower-cased text contains entry or junior, else 3 when it contains mid or
\* 2-5, else 5 when it contains senior or 5+, and 2 for every other label,
\* the empty label included; experience_approval, which compares the
\* candidate's total years with them, is 1 exactly when the total is at
\* least that number.
C29_RequiredYearsOfTheLabel ==
    (result.op = "extract_all_features" /\ ~result.raised) =>
        LET label == Lower(job.level_of_experience)
            has(word) == Contains(label, word)
            required_years ==
               IF has(<<"e","n","t","r","y">>) \/ has(<<"j","u","n","i","o","r">>) THEN 0
               ELSE IF has(<<"m","i","d">>) \/ has(<<"2","-","5">>) THEN 3
               ELSE IF has(<<"s","e","n","i","o","r">>) \/ has(<<"5","+">>) THEN 5
               ELSE 2
        IN  result.features.experience_approval
               = Flag(RLeq(RInt(required_years), result.features.total_years_experience))


\* C30: S_edu is one of 0, 0.7, 0.9 and 1, so the education reason of an
\* explanation is "Candidate does not meet minimum education requirement"
\* when the degree-level requirement is unmet and "Strong education match"
\* when it is met, never the field-mismatch reason, and the weaknesses hold
\* "Education level or field mismatch" exactly when the degree-level
\* requirement is unmet.
C30_EducationReasonHasTwoValues ==
    (result.op = "generate_explanation" /\ ~result.raised) =>
        LET education == result.explanation.breakdown.education
            unmet == result.features.has_required_degree_level = RZero
        IN  /\ result.layer_scores.S_edu \in {RZero, Rat(7, 10), Rat(9, 10), ROne}
            /\ education.score = result.layer_scores.S_edu
            /\ education.reason =
                  IF unmet
                  THEN "Candidate does not meet minimum education requirement"
                  ELSE "Strong education match"
            /\ ("Education level or field mismatch"
                   \in Range(result.explanation.weaknesses)) <=> unmet

C30_Witness ==
    /\ result.op = "generate_explanation"
    /\ ~result.raised
    /\ result.features.has_required_degree_level = ROne
    /\ result.features.field_match_score = RZero
    /\ result.layer_scores.S_edu = Rat(7, 10)
    /\ result.explanation.breakdown.education.reason = "Strong education match"
    /\ "Education level or field mismatch" \notin Range(result.explanation.weaknesses)

=============================================================================
